---- MODULE Spec2Model ----
(***************************************************************************)
(* Model of the evidence store (ExplorationScratchpad), the action gate    *)
(* (ThinkingEngine) and the iteration controller                           *)
(* (IntelligentThinkingSystem).                                             *)
(*                                                                         *)
(* Numbers.  Confidences are JavaScript numbers in [0,1].  They are kept   *)
(* exactly, as fractions [num, den] with den > 0; a literal such as 0.85   *)
(* is the integer 850 (thousandths) and comparisons cross-multiply.        *)
(*                                                                         *)
(* Time.  Date.now() is the variable now, counted in ticks of TickMs       *)
(* milliseconds; it only grows.                                            *)
(*                                                                         *)
(* Control.  The program is single-threaded and cooperative.  The async    *)
(* methods are cut into steps at their awaits; a program counter per       *)
(* method (pcRun, fdPc, trPc) holds the position.  Callers of the public   *)
(* API act only while the program is suspended on a timer or idle          *)
(* (Suspended), one top-level asynchronous call at a time.                 *)
(***************************************************************************)
EXTENDS Integers, Sequences, FiniteSets, TLC

\* ---------------------------------------------------------------- bounds
MaxEntries == 3
MaxTime == 1
\* toughReasoning on a store that was filled before: entries in the store,
\* iterations allowed, clock ticks since the store was created
MaxPrefill == 11
MaxDepth == 6
MaxElapsed == 3
\* entries in a store the gate's evaluations are applied to
MaxStored == 7
MaxRunIterations == 2
\* a run on a store nobody touches: iterations allowed, and thoughts in the
\* log when the controller is initialized or started again
MaxLoopIterations == 6
MaxLoopThoughts == 6
MaxToughIterations == 2
MaxThoughts == 2
MaxSteps == 2

\* ------------------------------------------------------------- constants
\* one tick of the clock is three seconds
TickMs == 3 * 1000
ConvergenceThreshold == 850

ConfValues == {300, 1000}
GateConfValues == {300, 700, 900, 1000}
ToughMinValues == {300, 850}
\* Stores toughReasoning is called on: <<first confidence, second
\* confidence>> alternate in a log of one of the given lengths
PrefillCounts == {0, 1, 10, MaxPrefill}
PrefillConfidences == {<<0, 0>>, <<300, 1000>>, <<700, 900>>, <<1000, 1000>>}
ToughDepths == {1, MaxDepth}
ToughMinInputs == {500, 850, 1000}
\* Iteration counts and thought confidences the convergence is computed for
ConvergeIterations == {0, 1, MaxDepth, MaxDepth + 1}
ThoughtConfidences == {0, 500, 1000}
Results == {"error"}
NoResult == "none"

\* An absent (undefined) filePath; like the empty string it is falsy.
NoPath == "<undefined>"
\* Entries the owner of the store adds: <<tool, query, filePath, confidence>>
CacheInputs ==
    { <<"SEARCH_FILES", "Auth", "X", 900>>,
      <<"search_files", "auth", "x", 300>>,
      <<"search_files", "auth", NoPath, 0>>,
      <<"search_files", "Auth", "", 0>>,
      <<"search_files", "auth:x", NoPath, 300>> }
\* Calls of the gate, <<tool, params>>, and result payloads
GateCalls ==
    { <<"search_files", [path |-> NoPath, regex |-> "Auth"]>>,
      <<"search_files", [path |-> "X", regex |-> "auth"]>>,
      <<"replace_in_file", [path |-> "X", regex |-> NoPath]>> }
GateResults == {"error", "long"}
Phases == {"EXPLORE", "THINK", "EXECUTE"}
\* Stores, calls and payloads the gate's evaluations are checked on
EvalCounts == {0, 4, 5, MaxStored - 1}
EvalConfidences ==
    {<<0, 0>>, <<700, 700>>, <<800, 800>>, <<850, 850>>, <<700, 1000>>, <<1000, 1000>>}
EvalCalls ==
    { <<"search_files", [path |-> NoPath, regex |-> "auth"]>>,
      <<"search_files", [path |-> NoPath, regex |-> "other"]>>,
      <<"replace_in_file", [path |-> "x", regex |-> NoPath]>>,
      <<"reasoning", [path |-> NoPath, regex |-> NoPath]>>,
      <<"execute_command", [path |-> NoPath, regex |-> NoPath]>> }
EvalStored == <<"search_files", [path |-> "X", regex |-> "Other"]>>
\* Blocks handed to ReasoningToolHandler.execute: the eight functions
\* (one of them named through reasoning_function, tough_reasoning with and
\* without its two numbers) and three names that execute does not know.
Block(function, fallback, maxIterations, minConfidence) ==
    [function |-> function, reasoning_function |-> fallback,
     max_iterations |-> maxIterations, min_confidence |-> minConfidence,
     tool_name |-> "search_files", query |-> "AUTH", file_path |-> NoPath]

KnownBlocks ==
    { Block("exploration_summary", NoPath, 0, 0),
      Block("tough_reasoning", NoPath, 0, 0),
      Block("tough_reasoning", NoPath, 1, 500),
      Block(NoPath, "check_cache", 0, 0),
      Block("get_exploration_recommendations", "reset", 0, 0),
      Block("thinking_history", NoPath, 0, 0),
      Block("final_decision", NoPath, 0, 0),
      Block("intelligent_thinking", NoPath, MaxRunIterations, 0),
      Block("intelligent_thinking_history", NoPath, 0, 0) }

UnknownBlocks ==
    { Block(NoPath, NoPath, 0, 0),
      Block("EXPLORATION_SUMMARY", "exploration_summary", 0, 0),
      Block("", "reset", 0, 0) }

\* Stores and iteration budgets of a run that nobody interferes with.
LoopCounts == {0, 2, 3, 5}
LoopConfidences == {<<300, 300>>, <<700, 700>>, <<700, 800>>, <<800, 800>>, <<1000, 1000>>}
LoopBudgets == {MaxRunIterations, MaxLoopIterations}
RerunCounts == {0, 5}

HandlerCounts == {0, 5, 10}
HandlerConfidences == {<<300, 300>>, <<1000, 1000>>}

EvalResults == {"error", "not_found", "long_error", "long", "hundred", "short", "object"}

\* ------------------------------------------------------------- variables
VARIABLES
    entries,              \* ExplorationScratchpad.entries
    cache,                \* ExplorationScratchpad.cache, a set of [key, entry]
    addCalls,             \* history: addEntry calls since construction or the last reset
    currentPhase,         \* ExplorationScratchpad.currentPhase
    explorationStartTime, \* ExplorationScratchpad.explorationStartTime
    now,                  \* Date.now()
    trPc, trCaller, trMax, trMin, trIter, trConf, trConclusion, trSteps, \* toughReasoning frame
    thinkingSteps,        \* ThinkingEngine.thinkingSteps
    fdPc, fdCaller, fdSummary, fdToughCalls, fdResult, \* makeFinalDecision frame
    baResult,             \* the call and the return value of the last thinkBeforeAction
    arResult,             \* the call and the return value of the last analyzeResult
    handler,              \* ReasoningToolHandler: collaborators, the call in progress, its response
    thoughtChain,         \* IntelligentThinkingSystem.thoughtChain
    currentIteration, totalIterations, isThinkingActive,
    lastActionResult, convergenceLevel,
    pcRun, analysis, decideSite, decisionCalls, startIteration, runResult, \* executeThinkingLoop frame
    pendingSeen           \* history: an iteration has started since the pending result was registered

storeVars == <<entries, cache, addCalls, currentPhase, explorationStartTime>>
trVars == <<trPc, trCaller, trMax, trMin, trIter, trConf, trConclusion, trSteps>>
fdVars == <<fdPc, fdCaller, fdSummary, fdToughCalls, fdResult, baResult, arResult, handler>>
ctxVars == <<currentIteration, totalIterations, isThinkingActive, lastActionResult, convergenceLevel>>
runVars == <<pcRun, analysis, decideSite, decisionCalls, startIteration, runResult>>
vars == <<storeVars, now, trVars, thinkingSteps, fdVars, thoughtChain, ctxVars, runVars, pendingSeen>>

\* --------------------------------------------------------------- helpers
Min(a, b) == IF a <= b THEN a ELSE b

Max(a, b) == IF a >= b THEN a ELSE b

Frac(n, d) == [num |-> n, den |-> d]

\* f >= t/1000, f > t/1000, f < t/1000 for a fraction f and thousandths t
\* A threshold that has to be exceeded.
FracGEStrict(f, t) == f.num * 1000 > t * f.den

FracGE(f, t) == f.num * 1000 >= t * f.den

FracGT(f, t) == f.num * 1000 > t * f.den

FracLT(f, t) == f.num * 1000 < t * f.den

FracEq(f, g) == f.num * g.den = g.num * f.den

\* A total that takes the first entry's confidence for every entry.
SumConfidenceOfHead(es) == IF es = <<>> THEN 0 ELSE Head(es).confidence * Len(es)

RECURSIVE SumConfidence(_)
SumConfidence(es) ==
    IF es = <<>> THEN 0 ELSE Head(es).confidence + SumConfidence(Tail(es))

\* entries.filter(...).length for a set of tool names, and for the
\* high-confidence entries
CountTools(es, tools) == Cardinality({i \in 1..Len(es) : es[i].toolName \in tools})

CountHighConfidence(es) == Cardinality({i \in 1..Len(es) : es[i].confidence > 800})

\* Array.prototype.sort with comparator (a, b) => b.timestamp - a.timestamp:
\* a stable sort, descending by timestamp.
RECURSIVE InsertStable(_, _)
InsertStable(e, sorted) ==
    IF sorted = <<>> THEN <<e>>
    ELSE IF Head(sorted).timestamp >= e.timestamp
         THEN <<Head(sorted)>> \o InsertStable(e, Tail(sorted))
         ELSE <<e>> \o sorted

RECURSIVE SortNewestFirst(_)
SortNewestFirst(es) ==
    IF es = <<>> THEN <<>>
    ELSE InsertStable(es[Len(es)], SortNewestFirst(SubSeq(es, 1, Len(es) - 1)))

\* ------------------------------------------------ ExplorationScratchpad
\* String.prototype.toLowerCase on the strings that occur as components of
\* a key; it distributes over the concatenation that builds the key.
ToLowerCase(s) ==
    CASE s = "Auth" -> "auth"
      [] s = "AUTH" -> "auth"
      [] s = "X" -> "x"
      [] s = "Other" -> "other"
      [] s = "SEARCH_FILES" -> "search_files"
      [] s = "Search_Files" -> "search_files"
      [] OTHER -> s

\* if (filePath): neither undefined nor the empty string
HasPath(filePath) == filePath \notin {NoPath, ""}

\* A key built from the components as they are written.
GenerateCacheKeyExact(tool, query, filePath) ==
    tool \o ":" \o query \o (IF HasPath(filePath) THEN ":" \o filePath ELSE "")

GenerateCacheKey(tool, query, filePath) ==
    ToLowerCase(tool) \o ":" \o ToLowerCase(query)
        \o (IF HasPath(filePath) THEN ":" \o ToLowerCase(filePath) ELSE "")

\* Map.prototype.set, has and get on the cache
\* A map that keeps the first value stored under a key.
CacheSetIfAbsent(c, key, entry) ==
    IF \E x \in c : x.key = key THEN c ELSE c \cup {[key |-> key, entry |-> entry]}

CacheSet(c, key, entry) == {x \in c : x.key # key} \cup {[key |-> key, entry |-> entry]}

CacheHas(c, key) == \E x \in c : x.key = key

CacheGet(c, key) == (CHOOSE x \in c : x.key = key).entry

\* hasExplored and getCachedResult (lines 563-574)
HasExplored(tool, query, filePath) == CacheHas(cache, GenerateCacheKey(tool, query, filePath))

GetCachedResult(tool, query, filePath) == CacheGet(cache, GenerateCacheKey(tool, query, filePath))

\* An entry of the log; seq is history: its rank among the addEntry calls.
Entry(tool, query, filePath, conf, ts, seq) ==
    [toolName |-> tool, query |-> query, filePath |-> filePath,
     confidence |-> conf, timestamp |-> ts, seq |-> seq]

GenerateSummary(es) ==
    [ totalEntries   |-> Len(es),
      filesExplored  |-> CountTools(es, {"read_file", "list_files"}),
      searchQueries  |-> CountTools(es, {"search_files"}),
      listOperations |-> CountTools(es, {"list_files"}),
      keyFindings    |-> CountHighConfidence(es),
      confidenceScore |-> IF Len(es) > 0 THEN Frac(SumConfidence(es), 1000 * Len(es))
                          ELSE Frac(0, 1000) ]

GetExplorationDuration == (now - explorationStartTime) * TickMs

\* min(1, base * min(1, n/10) + min(0.2, i*0.05) + min(0.1, ms/60000)),
\* as a fraction over 10000 * max(n, 1)
\* The confidence without the depth factor min(1, n/10).
CalculateConfidenceWithoutDepth(summary, iterations, durationMs) ==
    LET d == 10000 * Max(summary.totalEntries, 1)
        base == summary.confidenceScore.num * (d \div summary.confidenceScore.den)
        total == base + ((Min(200, iterations * 50) + Min(100, durationMs \div 60)) * d) \div 1000
    IN  Frac(Min(d, total), d)

CalculateSophisticatedConfidence(summary, iterations, durationMs) ==
    LET n == summary.totalEntries
        d == 10000 * Max(n, 1)
        baseTimesDepth == (summary.confidenceScore.num * Min(n, 10)
                              * (d \div summary.confidenceScore.den)) \div 10
        iterationBonus == Min(200, iterations * 50)
        timeBonus == Min(100, durationMs \div 60)
        total == baseTimesDepth + ((iterationBonus + timeBonus) * d) \div 1000
    IN  Frac(Min(d, total), d)

\* transitionToNextPhase with a default branch that starts over.
NextPhaseWraps(p) ==
    CASE p = "EXPLORE" -> "THINK"
      [] p = "THINK" -> "EXECUTE"
      [] OTHER -> "EXPLORE"

NextPhase(p) ==
    CASE p = "EXPLORE" -> "THINK"
      [] p = "THINK" -> "EXECUTE"
      [] OTHER -> p

PhaseRank(p) ==
    CASE p = "EXPLORE" -> 0
      [] p = "THINK" -> 1
      [] OTHER -> 2

\* ----------------------------------------------------------- call state
\* No asynchronous call is in progress.
NoCall ==
    /\ pcRun \in {"idle", "returned", "thrown"}
    /\ fdPc \in {"idle", "ret"}
    /\ trPc \in {"idle", "ret"}
    /\ handler.pc \in {"idle", "ret"}

\* The event loop is free: nothing is running, or the running call waits
\* on a timer (toughReasoning's 150 ms, simulateThinkingPause).
Suspended == NoCall \/ trPc = "pause" \/ pcRun = "pause"

Thought(phase, kind, confidence) ==
    [phase |-> phase, kind |-> kind, confidence |-> confidence]

\* A trace step that is always filed under EXPLORE.
StepInExplore(phase, action, confidence) ==
    [phase |-> "EXPLORE", action |-> action, confidence |-> confidence]

Step(phase, action, confidence) ==
    [phase |-> phase, action |-> action, confidence |-> confidence]

\* Nothing returned yet by executeThinkingLoop / makeFinalDecision.
NoRunResult ==
    [finalDecision |-> "none", confidence |-> Frac(0, 1000), thoughtProcess |-> 0]

NoGateResult ==
    [decision |-> "none", confidence |-> Frac(0, 1000), actionPlan |-> <<>>,
     reasoning |-> [totalEntries |-> 0, confidenceScore |-> Frac(0, 1000)]]

NoParams == [path |-> NoPath, regex |-> NoPath]

\* Nothing returned yet by thinkBeforeAction / analyzeResult.
NoBeforeResult ==
    [toolName |-> "none", params |-> NoParams, shouldProceed |-> FALSE,
     reasoning |-> "none", confidence |-> Frac(0, 1000)]

NoAfterResult ==
    [toolName |-> "none", params |-> NoParams, result |-> "none", shouldTransition |-> FALSE]

\* The parameters of a block without parameters, and the handler before
\* its first call; engine and system say whether the optional
\* collaborators were passed to the constructor.
NoBlock ==
    [function |-> NoPath, reasoning_function |-> NoPath, max_iterations |-> 0,
     min_confidence |-> 0, tool_name |-> NoPath, query |-> NoPath, file_path |-> NoPath]

NoHandlerCall ==
    [pc |-> "idle", params |-> NoBlock, functionName |-> NoPath, repeated |-> FALSE,
     maxIterations |-> 0, minConfidence |-> 0, response |-> "none",
     engine |-> TRUE, system |-> TRUE]

NoAnalysis ==
    [needsMoreExploration |-> FALSE, needsDeepReasoning |-> FALSE,
     canMakeDecision |-> FALSE, explorationStrategy |-> <<>>]

Init ==
    /\ entries = <<>>
    /\ cache = {}
    /\ addCalls = 0
    /\ currentPhase = "EXPLORE"
    /\ explorationStartTime = 0
    /\ now = 0
    /\ trPc = "idle" /\ trCaller = "none" /\ trMax = 0 /\ trMin = 0
    /\ trIter = 0 /\ trConf = Frac(0, 1000) /\ trConclusion = "insufficient" /\ trSteps = 0
    /\ thinkingSteps = <<>>
    /\ fdPc = "idle" /\ fdCaller = "none" /\ fdSummary = GenerateSummary(<<>>)
    /\ fdToughCalls = 0 /\ fdResult = NoGateResult
    /\ baResult = NoBeforeResult /\ arResult = NoAfterResult
    /\ handler = NoHandlerCall
    /\ thoughtChain = <<>>
    /\ currentIteration = 0 /\ totalIterations = 0 /\ isThinkingActive = FALSE
    /\ lastActionResult = NoResult /\ convergenceLevel = Frac(0, 1000)
    /\ pcRun = "idle" /\ analysis = NoAnalysis /\ decideSite = "none"
    /\ decisionCalls = 0 /\ startIteration = 0 /\ runResult = NoRunResult
    /\ pendingSeen = FALSE

\* The store after n addEntry calls made at clock reading 0 (equal
\* timestamps: the sort keeps the insertion order), some ticks ago.
Prefill(n, confs) ==
    [i \in 1..n |-> Entry("search_files", "auth", NoPath,
                          IF i % 2 = 1 THEN confs[1] ELSE confs[2], 0, i)]

InitTough ==
    /\ \E n \in PrefillCounts, confs \in PrefillConfidences :
          /\ entries = Prefill(n, confs)
          /\ cache = IF n = 0 THEN {}
                     ELSE {[key |-> GenerateCacheKey("search_files", "auth", NoPath),
                            entry |-> Prefill(n, confs)[n]]}
          /\ addCalls = n
    /\ currentPhase = "EXPLORE"
    /\ explorationStartTime = 0
    /\ now \in 0..MaxElapsed
    /\ trPc = "idle" /\ trCaller = "none" /\ trMax = 0 /\ trMin = 0
    /\ trIter = 0 /\ trConf = Frac(0, 1000) /\ trConclusion = "insufficient" /\ trSteps = 0
    /\ thinkingSteps = <<>>
    /\ fdPc = "idle" /\ fdCaller = "none" /\ fdSummary = GenerateSummary(<<>>)
    /\ fdToughCalls = 0 /\ fdResult = NoGateResult
    /\ baResult = NoBeforeResult /\ arResult = NoAfterResult
    /\ handler = NoHandlerCall
    /\ thoughtChain = <<>>
    /\ currentIteration = 0 /\ totalIterations = 0 /\ isThinkingActive = FALSE
    /\ lastActionResult = NoResult /\ convergenceLevel = Frac(0, 1000)
    /\ pcRun = "idle" /\ analysis = NoAnalysis /\ decideSite = "none"
    /\ decisionCalls = 0 /\ startIteration = 0 /\ runResult = NoRunResult
    /\ pendingSeen = FALSE

\* No call is in progress and none has been made.
IdleFrames ==
    /\ trPc = "idle" /\ trCaller = "none" /\ trMax = 0 /\ trMin = 0
    /\ trIter = 0 /\ trConf = Frac(0, 1000) /\ trConclusion = "insufficient" /\ trSteps = 0
    /\ fdPc = "idle" /\ fdCaller = "none" /\ fdSummary = GenerateSummary(<<>>)
    /\ fdToughCalls = 0 /\ fdResult = NoGateResult
    /\ baResult = NoBeforeResult /\ arResult = NoAfterResult
    /\ pcRun = "idle" /\ analysis = NoAnalysis /\ decideSite = "none"
    /\ decisionCalls = 0 /\ startIteration = 0 /\ runResult = NoRunResult
    /\ pendingSeen = FALSE

\* The store after n addEntry calls made at clock reading 0.
StoreFilled(n, confs) ==
    /\ entries = Prefill(n, confs)
    /\ cache = IF n = 0 THEN {}
               ELSE {[key |-> GenerateCacheKey("search_files", "auth", NoPath),
                      entry |-> Prefill(n, confs)[n]]}
    /\ addCalls = n
    /\ explorationStartTime = 0
    /\ now = 0

\* The gate on a store that was filled before, in any phase.
InitEval ==
    /\ \E n \in EvalCounts, confs \in EvalConfidences : StoreFilled(n, confs)
    /\ currentPhase \in Phases
    /\ thinkingSteps = <<>>
    /\ thoughtChain = <<>>
    /\ currentIteration = 0 /\ totalIterations = 0 /\ isThinkingActive = FALSE
    /\ lastActionResult = NoResult /\ convergenceLevel = Frac(0, 1000)
    /\ handler = NoHandlerCall
    /\ IdleFrames

\* The arguments of the convergence computation: a store, an iteration
\* count and a thought log of up to MaxThoughts + 1 thoughts.
InitConverge ==
    /\ \E n \in 0..MaxEntries, confs \in PrefillConfidences : StoreFilled(n, confs)
    /\ currentPhase = "THINK"
    /\ currentIteration \in ConvergeIterations
    /\ \E len \in 0..(MaxThoughts + 1) :
          thoughtChain \in [1..len -> {Thought("THINK", "task", Frac(c, 1000)) :
                                          c \in ThoughtConfidences}]
    /\ totalIterations = 0 /\ isThinkingActive = FALSE
    /\ lastActionResult = NoResult /\ convergenceLevel = Frac(0, 1000)
    /\ thinkingSteps = <<>>
    /\ handler = NoHandlerCall
    /\ IdleFrames

\* --------------------------------------- ExplorationScratchpad, callers
TickUntil(limit) ==
    /\ Suspended
    /\ now < limit
    /\ now' = now + 1
    /\ UNCHANGED <<storeVars, trVars, thinkingSteps, fdVars, thoughtChain, ctxVars, runVars, pendingSeen>>

Tick == TickUntil(MaxTime)

\* The effect of addEntry on the store (lines 543-557).
AddEntryEffect(tool, query, filePath, conf) ==
    LET fullEntry == Entry(tool, query, filePath, conf, now, addCalls + 1)
    IN  /\ entries' = SortNewestFirst(Append(entries, fullEntry))
        /\ cache' = CacheSet(cache, GenerateCacheKey(tool, query, filePath), fullEntry)
        /\ addCalls' = addCalls + 1

\* addEntry called by the owner of the store with a full entry.
AddEntryKeyed(tool, query, filePath, conf) ==
    /\ Suspended
    /\ Len(entries) < MaxEntries
    /\ AddEntryEffect(tool, query, filePath, conf)
    /\ UNCHANGED <<currentPhase, explorationStartTime, now, trVars, thinkingSteps, fdVars,
                   thoughtChain, ctxVars, runVars, pendingSeen>>

\* addEntry with one fixed query and no path.
AddEntry(tool, conf) == AddEntryKeyed(tool, "auth", NoPath, conf)

TransitionToNextPhase ==
    /\ Suspended
    /\ currentPhase' = NextPhase(currentPhase)
    /\ UNCHANGED <<entries, cache, addCalls, explorationStartTime, now, trVars, thinkingSteps, fdVars,
                   thoughtChain, ctxVars, runVars, pendingSeen>>

\* A reset that empties the log and leaves the cache map as it is.
ResetLogOnly ==
    /\ Suspended
    /\ entries' = <<>>
    /\ addCalls' = 0
    /\ currentPhase' = "EXPLORE"
    /\ explorationStartTime' = now
    /\ UNCHANGED <<cache, now, trVars, thinkingSteps, fdVars, thoughtChain, ctxVars, runVars,
                   pendingSeen>>

Reset ==
    /\ Suspended
    /\ entries' = <<>>
    /\ cache' = {}
    /\ addCalls' = 0
    /\ currentPhase' = "EXPLORE"
    /\ explorationStartTime' = now
    /\ UNCHANGED <<now, trVars, thinkingSteps, fdVars, thoughtChain, ctxVars, runVars, pendingSeen>>

\* The frame of makeFinalDecision is dropped once its result is taken.
FinalDecisionFrameDropped ==
    /\ fdPc' = "idle" /\ fdCaller' = "none" /\ fdSummary' = GenerateSummary(<<>>)
    /\ fdToughCalls' = 0 /\ fdResult' = NoGateResult
    /\ UNCHANGED <<baResult, arResult>>

\* ------------------------------------------------------- toughReasoning
\* Entry of toughReasoning(maxIterations, minConfidence): the locals are
\* initialised and the for loop starts at iterations = 1.
ToughFrame(caller, maxIterations, minConfidence) ==
    /\ trPc' = "iter"
    /\ trCaller' = caller
    /\ trMax' = maxIterations
    /\ trMin' = minConfidence
    /\ trIter' = 1
    /\ trConf' = Frac(0, 1000)
    /\ trConclusion' = "insufficient"
    /\ trSteps' = 0

ToughReasoningCall(maxIterations, minConfidence) ==
    /\ NoCall
    /\ ToughFrame("direct", maxIterations, minConfidence)
    /\ FinalDecisionFrameDropped
    /\ UNCHANGED handler
    /\ UNCHANGED <<storeVars, now, thinkingSteps, thoughtChain, ctxVars, runVars, pendingSeen>>

\* The loop test and one loop body, up to the break or the 150 ms timer.
ToughIterate ==
    /\ trPc = "iter"
    /\ IF trIter <= trMax
       THEN LET summary == GenerateSummary(entries)
                c == CalculateSophisticatedConfidence(summary, trIter, GetExplorationDuration)
            IN  /\ trConf' = c
                /\ IF FracGE(c, trMin)
                   THEN /\ trConclusion' = "detailed"
                        /\ trSteps' = trSteps + 3
                        /\ trPc' = "ret"
                   ELSE /\ trConclusion' = trConclusion
                        /\ trSteps' = trSteps + 2
                        /\ trPc' = "pause"
       ELSE /\ trPc' = "ret"
            /\ UNCHANGED <<trConf, trConclusion, trSteps>>
    /\ UNCHANGED <<trCaller, trMax, trMin, trIter>>
    /\ UNCHANGED <<storeVars, now, thinkingSteps, fdVars, thoughtChain, ctxVars, runVars, pendingSeen>>

\* The timer fires; the for loop's update expression runs.
ToughResume ==
    /\ trPc = "pause"
    /\ trPc' = "iter"
    /\ trIter' = trIter + 1
    /\ UNCHANGED <<trCaller, trMax, trMin, trConf, trConclusion, trSteps>>
    /\ UNCHANGED <<storeVars, now, thinkingSteps, fdVars, thoughtChain, ctxVars, runVars, pendingSeen>>

\* The frame is dropped once the caller has taken the result.
ToughFrameDropped ==
    /\ trPc' = "idle" /\ trCaller' = "none" /\ trMax' = 0 /\ trMin' = 0
    /\ trIter' = 0 /\ trConf' = Frac(0, 1000) /\ trConclusion' = "insufficient" /\ trSteps' = 0

\* The value toughReasoning returns once trPc = "ret".
ToughResult ==
    [conclusion |-> trConclusion, confidence |-> trConf,
     iterations |-> trIter, reasoningSteps |-> trSteps]

\* ------------------------------------------------------- ThinkingEngine
HighPlan == <<"Executar mudancas necessarias", "Validar implementacao", "Testar funcionalidade">>

ModeratePlan == <<"Implementar solucao proposta", "Verificar se resolve o problema",
                  "Preparar ajustes se necessario">>

ContinuePlan == <<"Continuar exploracao", "Coletar mais evidencias", "Reavaliar abordagem">>

\* generateFinalDecision with the moderate bucket starting above 0.8.
GenerateFinalDecisionStrict(summary) ==
    IF FracGT(summary.confidenceScore, 900)
    THEN [decision |-> "high", confidence |-> summary.confidenceScore, actionPlan |-> HighPlan]
    ELSE IF FracGT(summary.confidenceScore, 800)
    THEN [decision |-> "moderate", confidence |-> summary.confidenceScore, actionPlan |-> ModeratePlan]
    ELSE [decision |-> "more_analysis", confidence |-> summary.confidenceScore, actionPlan |-> ContinuePlan]

\* generateFinalDecision reporting a confidence of at least 0.5.
GenerateFinalDecisionFloored(summary) ==
    LET shown == IF FracLT(summary.confidenceScore, 500) THEN Frac(500, 1000)
                 ELSE summary.confidenceScore
    IN  IF FracGT(summary.confidenceScore, 900)
        THEN [decision |-> "high", confidence |-> shown, actionPlan |-> HighPlan]
        ELSE IF FracGT(summary.confidenceScore, 700)
        THEN [decision |-> "moderate", confidence |-> shown, actionPlan |-> ModeratePlan]
        ELSE [decision |-> "more_analysis", confidence |-> shown, actionPlan |-> ContinuePlan]

GenerateFinalDecision(summary) ==
    IF FracGT(summary.confidenceScore, 900)
    THEN [decision |-> "high", confidence |-> summary.confidenceScore, actionPlan |-> HighPlan]
    ELSE IF FracGT(summary.confidenceScore, 700)
    THEN [decision |-> "moderate", confidence |-> summary.confidenceScore, actionPlan |-> ModeratePlan]
    ELSE [decision |-> "more_analysis", confidence |-> summary.confidenceScore, actionPlan |-> ContinuePlan]

\* The test of line 195 written with <= instead of <.
NeedsToughReasoningInclusive(summary) == ~FracGT(summary.confidenceScore, 800)

\* makeFinalDecision forces tough reasoning when this holds of its summary.
NeedsToughReasoning(summary) == FracLT(summary.confidenceScore, 800)

\* if (x): strings that are neither undefined nor empty
Truthy(x) == x \notin {NoPath, ""}

\* JSON.stringify(params)
Stringify(params) ==
    "{" \o (IF params.path # NoPath THEN "path:" \o params.path ELSE "")
        \o (IF params.regex # NoPath THEN ",regex:" \o params.regex ELSE "") \o "}"

ExtractQueryFromTool(tool, params) ==
    CASE tool = "search_files" -> IF Truthy(params.regex) THEN params.regex ELSE ""
      [] tool \in {"read_file", "list_files"} ->
             IF Truthy(params.path) THEN params.path ELSE ""
      [] OTHER -> Stringify(params)

ExplorationTools == {"search_files", "read_file", "list_files"}

ModificationTools == {"replace_in_file", "write_to_file"}

\* evaluateToolRelevance, in thousandths
EvaluateToolRelevance(tool, phase, summary) ==
    IF phase = "EXPLORE" /\ tool \in ExplorationTools THEN 900
    ELSE IF phase = "EXECUTE" /\ tool \in ModificationTools
    THEN (IF FracGT(summary.confidenceScore, 700) THEN 900 ELSE 500)
    ELSE IF tool = "reasoning" THEN 950
    ELSE 600

HasSufficientEvidenceForAction(tool, summary) ==
    IF tool \in ExplorationTools THEN TRUE
    ELSE IF tool \in ModificationTools
    THEN FracGT(summary.confidenceScore, 800) /\ summary.totalEntries > 5
    ELSE summary.totalEntries > 0

\* Relevance and store confidence added instead of averaged.
CalculateActionConfidenceSummed(toolRelevance, sufficientEvidence, scratchpadConfidence) ==
    LET k == scratchpadConfidence.den \div 1000
        d == 10000 * k
        sum == 10 * (toolRelevance * k + scratchpadConfidence.num)
        c == IF sufficientEvidence THEN sum ELSE (sum * 8) \div 10
    IN  Frac(Min(d, c), d)

\* The mean of relevance and store confidence, whatever the evidence.
CalculateActionConfidenceUnscaled(toolRelevance, sufficientEvidence, scratchpadConfidence) ==
    LET k == scratchpadConfidence.den \div 1000
    IN  Frac(Min(10000 * k, 5 * (toolRelevance * k + scratchpadConfidence.num)), 10000 * k)

\* min(1, ((toolRelevance + scratchpadConfidence) / 2) * (0.8 if evidence
\* is insufficient)), as a fraction over 10000 * k for a confidenceScore
\* whose denominator is 1000 * k
CalculateActionConfidence(toolRelevance, sufficientEvidence, scratchpadConfidence) ==
    LET k == scratchpadConfidence.den \div 1000
        d == 10000 * k
        half == 5 * (toolRelevance * k + scratchpadConfidence.num)
        c == IF sufficientEvidence THEN half ELSE (half * 8) \div 10
    IN  Frac(Min(d, c), d)

\* What calculateResultConfidence inspects of a payload: its type, the two
\* substrings it looks for, and its length.
PayloadOf(result) ==
    CASE result = "error" ->
           [isString |-> TRUE, includesError |-> TRUE, includesNotFound |-> FALSE, length |-> 20]
      [] result = "not_found" ->
           [isString |-> TRUE, includesError |-> FALSE, includesNotFound |-> TRUE, length |-> 20]
      [] result = "long_error" ->
           [isString |-> TRUE, includesError |-> TRUE, includesNotFound |-> FALSE, length |-> 101]
      [] result = "long" ->
           [isString |-> TRUE, includesError |-> FALSE, includesNotFound |-> FALSE, length |-> 101]
      [] result = "hundred" ->
           [isString |-> TRUE, includesError |-> FALSE, includesNotFound |-> FALSE, length |-> 100]
      [] result = "short" ->
           [isString |-> TRUE, includesError |-> FALSE, includesNotFound |-> FALSE, length |-> 20]
      [] OTHER ->
           [isString |-> FALSE, includesError |-> FALSE, includesNotFound |-> FALSE, length |-> 0]

\* A heuristic that looks at the length first.
CalculateResultConfidenceByLength(result) ==
    LET p == PayloadOf(result)
    IN  IF p.isString
        THEN IF p.length > 100 THEN 900
             ELSE IF p.includesError \/ p.includesNotFound THEN 300
             ELSE 700
        ELSE 800

\* calculateResultConfidence: the payload is a text that contains "error"
\* or "not found", a text of more than 100 characters, another text, or
\* not a text.
CalculateResultConfidence(result) ==
    LET p == PayloadOf(result)
    IN  IF p.isString
        THEN IF p.includesError \/ p.includesNotFound THEN 300
             ELSE IF p.length > 100 THEN 900
             ELSE 700
        ELSE 800

\* Thresholds that are reached, not exceeded.
ShouldTransitionPhaseInclusive(phase, summary) ==
    CASE phase = "EXPLORE" -> summary.totalEntries >= 5 /\ FracGE(summary.confidenceScore, 700)
      [] phase = "THINK" -> FracGE(summary.confidenceScore, 850)
      [] OTHER -> FALSE

ShouldTransitionPhase(phase, summary) ==
    CASE phase = "EXPLORE" -> summary.totalEntries >= 5 /\ FracGT(summary.confidenceScore, 700)
      [] phase = "THINK" -> FracGT(summary.confidenceScore, 850)
      [] OTHER -> FALSE

\* An initializeTask that also starts the store afresh.
InitializeTaskOnFreshStore ==
    /\ NoCall
    /\ thinkingSteps' = <<Step("EXPLORE", "task_received", Frac(500, 1000)),
                          Step("EXPLORE", "no_prior_knowledge", Frac(300, 1000))>>
    /\ entries' = <<>> /\ cache' = {} /\ addCalls' = 0
    /\ currentPhase' = "EXPLORE"
    /\ UNCHANGED <<explorationStartTime, now, trVars, fdVars, thoughtChain, ctxVars, runVars,
                   pendingSeen>>

\* initializeTask (lines 36-71): the trace is emptied and restarted.
InitializeTask ==
    /\ NoCall
    /\ thinkingSteps' = <<Step("EXPLORE", "task_received", Frac(500, 1000))>>
           \o (IF GenerateSummary(entries).totalEntries = 0
               THEN <<Step("EXPLORE", "no_prior_knowledge", Frac(300, 1000))>>
               ELSE <<>>)
    /\ UNCHANGED <<storeVars, now, trVars, fdVars, thoughtChain, ctxVars, runVars, pendingSeen>>

\* A cache hit reporting the fallback whatever the entry holds.
CachedConfidenceDefault(entry) == Frac(800, 1000)

\* cachedResult?.confidence || 0.8 (line 107)
CachedConfidence(entry) == IF entry.confidence = 0 THEN Frac(800, 1000) ELSE Frac(entry.confidence, 1000)

\* thinkBeforeAction (lines 76-136)
ThinkBeforeAction(tool, params) ==
    /\ NoCall
    /\ Len(thinkingSteps) < MaxSteps
    /\ LET summary == GenerateSummary(entries)
           query == ExtractQueryFromTool(tool, params)
       IN  IF HasExplored(tool, query, params.path)
           THEN /\ thinkingSteps' = Append(thinkingSteps,
                                           Step(currentPhase, "cache_check", Frac(900, 1000)))
                /\ baResult' = [toolName |-> tool, params |-> params, shouldProceed |-> FALSE,
                                reasoning |-> "cached",
                                confidence |-> CachedConfidence(
                                                  GetCachedResult(tool, query, params.path))]
           ELSE LET toolRelevance == EvaluateToolRelevance(tool, currentPhase, summary)
                    sufficientEvidence == HasSufficientEvidenceForAction(tool, summary)
                    confidence == CalculateActionConfidence(toolRelevance, sufficientEvidence,
                                                            summary.confidenceScore)
                IN  /\ thinkingSteps' = Append(thinkingSteps,
                                               Step(currentPhase, "tool_evaluation", confidence))
                    /\ baResult' = [toolName |-> tool, params |-> params,
                                    shouldProceed |-> FracGT(confidence, 600),
                                    reasoning |-> "evaluated", confidence |-> confidence]
    /\ UNCHANGED <<fdPc, fdCaller, fdSummary, fdToughCalls, fdResult, arResult, handler>>
    /\ UNCHANGED <<storeVars, now, trVars, thoughtChain, ctxVars, runVars, pendingSeen>>

\* analyzeResult (lines 141-181): the phase and the summary are read before
\* the entry is stored.
AnalyzeResultUpTo(limit, tool, params, result) ==
    /\ NoCall
    /\ Len(thinkingSteps) < MaxSteps
    /\ Len(entries) < limit
    /\ LET summary == GenerateSummary(entries)
       IN  /\ AddEntryEffect(tool, ExtractQueryFromTool(tool, params), params.path,
                             CalculateResultConfidence(result))
           /\ thinkingSteps' = Append(thinkingSteps,
                   Step(currentPhase, "result_analysis", summary.confidenceScore))
           /\ arResult' = [toolName |-> tool, params |-> params, result |-> result,
                           shouldTransition |-> ShouldTransitionPhase(currentPhase, summary)]
    /\ UNCHANGED <<fdPc, fdCaller, fdSummary, fdToughCalls, fdResult, baResult, handler>>
    /\ UNCHANGED <<currentPhase, explorationStartTime, now, trVars, thoughtChain, ctxVars,
                   runVars, pendingSeen>>

AnalyzeResult(tool, params, result) == AnalyzeResultUpTo(MaxEntries, tool, params, result)

FinalDecisionFrame(caller) ==
    /\ fdPc' = "start"
    /\ fdCaller' = caller
    /\ fdToughCalls' = 0
    /\ fdResult' = NoGateResult
    /\ UNCHANGED <<fdSummary, baResult, arResult>>

MakeFinalDecisionCall ==
    /\ NoCall
    /\ Len(thinkingSteps) < MaxSteps
    /\ FinalDecisionFrame("direct")
    /\ UNCHANGED handler
    /\ ToughFrameDropped
    /\ UNCHANGED <<storeVars, now, thinkingSteps, thoughtChain, ctxVars, runVars, pendingSeen>>

\* Lines 192-196: the summary is taken, and tough reasoning is awaited if
\* the confidence is low.
MakeFinalDecisionStart ==
    /\ fdPc = "start"
    /\ fdSummary' = GenerateSummary(entries)
    /\ IF NeedsToughReasoning(fdSummary')
       THEN /\ ToughFrame("gate", 5, 850)
            /\ fdToughCalls' = fdToughCalls + 1
            /\ fdPc' = "tough_wait"
       ELSE /\ fdPc' = "generate"
            /\ UNCHANGED <<trVars, fdToughCalls>>
    /\ UNCHANGED <<fdCaller, fdResult, baResult, arResult, handler>>
    /\ UNCHANGED <<storeVars, now, thinkingSteps, thoughtChain, ctxVars, runVars, pendingSeen>>

\* Lines 197-226: the tough-reasoning step (if it ran), the decision, the
\* final step and the return value.
MakeFinalDecisionFinish ==
    /\ \/ fdPc = "generate"
       \/ fdPc = "tough_wait" /\ trPc = "ret" /\ trCaller = "gate"
    /\ LET fromTough == fdPc = "tough_wait"
           d == GenerateFinalDecision(GenerateSummary(entries))
           toughStep == IF fromTough
                        THEN <<Step("THINK", "tough_reasoning", ToughResult.confidence)>>
                        ELSE <<>>
       IN  /\ thinkingSteps' = thinkingSteps \o toughStep
                                   \o <<Step("EXECUTE", "final_decision", d.confidence)>>
           /\ fdResult' = [decision |-> d.decision, confidence |-> d.confidence,
                           actionPlan |-> d.actionPlan,
                           reasoning |-> [totalEntries |-> fdSummary.totalEntries,
                                          confidenceScore |-> fdSummary.confidenceScore]]
           /\ IF fromTough THEN ToughFrameDropped ELSE UNCHANGED trVars
    /\ fdPc' = "ret"
    /\ UNCHANGED <<fdCaller, fdSummary, fdToughCalls, baResult, arResult, handler>>
    /\ UNCHANGED <<storeVars, now, thoughtChain, ctxVars, runVars, pendingSeen>>

\* -------------------------------------------- IntelligentThinkingSystem
InitializeIntelligentThinkingUpTo(limit) ==
    /\ NoCall
    /\ Len(thoughtChain) < limit
    /\ currentIteration' = 0
    /\ isThinkingActive' = TRUE
    /\ thoughtChain' = thoughtChain
           \o <<Thought("THINK", "task", Frac(500, 1000)),
                Thought("THINK", "assessment", GenerateSummary(entries).confidenceScore)>>
    /\ pcRun' = "idle" /\ analysis' = NoAnalysis /\ decideSite' = "none"
    /\ decisionCalls' = 0 /\ startIteration' = 0 /\ runResult' = NoRunResult
    /\ pendingSeen' = FALSE
    /\ UNCHANGED <<totalIterations, lastActionResult, convergenceLevel>>
    /\ UNCHANGED <<storeVars, now, trVars, thinkingSteps, fdVars>>

InitializeIntelligentThinking == InitializeIntelligentThinkingUpTo(MaxThoughts)

RegisterActionResult(result) ==
    /\ Suspended
    /\ lastActionResult' = result
    /\ pendingSeen' = FALSE
    /\ UNCHANGED <<currentIteration, totalIterations, isThinkingActive, convergenceLevel>>
    /\ UNCHANGED <<storeVars, now, trVars, thinkingSteps, fdVars, thoughtChain, runVars>>

StopThinking ==
    /\ Suspended
    /\ isThinkingActive' = FALSE
    /\ UNCHANGED <<currentIteration, totalIterations, lastActionResult, convergenceLevel>>
    /\ UNCHANGED <<storeVars, now, trVars, thinkingSteps, fdVars, thoughtChain, runVars, pendingSeen>>

\* Entry of executeThinkingLoop(maxIterations), line 89.
ExecuteThinkingLoopUpTo(limit, maxIterations) ==
    /\ NoCall
    /\ Len(thoughtChain) <= limit
    /\ totalIterations' = maxIterations
    /\ pcRun' = "loop"
    /\ analysis' = NoAnalysis
    /\ decideSite' = "none"
    /\ decisionCalls' = 0
    /\ startIteration' = currentIteration
    /\ runResult' = NoRunResult
    /\ UNCHANGED <<currentIteration, isThinkingActive, lastActionResult, convergenceLevel>>
    /\ UNCHANGED <<storeVars, now, trVars, thinkingSteps, fdVars, thoughtChain, pendingSeen>>

ExecuteThinkingLoop(maxIterations) == ExecuteThinkingLoopUpTo(MaxThoughts, maxIterations)

\* The while condition of line 91 and the increment of line 92; when the
\* condition fails control reaches the forced decision of line 138.
\* The while condition with <= for <, and without the stop flag.
LoopConditionOffByOne == currentIteration <= totalIterations /\ isThinkingActive

LoopConditionIgnoresStop == currentIteration < totalIterations

LoopCondition == currentIteration < totalIterations /\ isThinkingActive

LoopHead ==
    /\ pcRun = "loop"
    /\ IF LoopCondition
       THEN /\ currentIteration' = currentIteration + 1
            /\ pcRun' = "analyze"
            /\ pendingSeen' = (lastActionResult # NoResult)
            /\ UNCHANGED decideSite
       ELSE /\ pcRun' = "decide"
            /\ decideSite' = "forced"
            /\ UNCHANGED <<currentIteration, pendingSeen>>
    /\ UNCHANGED <<totalIterations, isThinkingActive, lastActionResult, convergenceLevel>>
    /\ UNCHANGED <<analysis, decisionCalls, startIteration, runResult>>
    /\ UNCHANGED <<storeVars, now, trVars, thinkingSteps, fdVars, thoughtChain>>

\* analyzeCurrentSituation with the deep-reasoning branch taken for every
\* store in the THINK phase.
ClassifyDeepInThink(summary, phase, iteration) ==
    IF summary.totalEntries < 3 /\ phase = "EXPLORE" THEN "broad"
    ELSE IF phase = "THINK" THEN "deep"
    ELSE IF FracGE(summary.confidenceScore, 800) \/ iteration >= 5 THEN "decide"
    ELSE "targeted"

\* analyzeCurrentSituation deciding from iteration 6 on.
ClassifyLateDecision(summary, phase, iteration) ==
    IF summary.totalEntries < 3 /\ phase = "EXPLORE" THEN "broad"
    ELSE IF FracLT(summary.confidenceScore, 700) /\ phase = "THINK" THEN "deep"
    ELSE IF FracGE(summary.confidenceScore, 800) \/ iteration >= 6 THEN "decide"
    ELSE "targeted"

\* analyzeCurrentSituation with the decision test ahead of the
\* deep-reasoning test.
ClassifyDecideFirst(summary, phase, iteration) ==
    IF summary.totalEntries < 3 /\ phase = "EXPLORE" THEN "broad"
    ELSE IF FracGE(summary.confidenceScore, 800) \/ iteration >= 5 THEN "decide"
    ELSE IF FracLT(summary.confidenceScore, 700) /\ phase = "THINK" THEN "deep"
    ELSE "targeted"

\* The branch analyzeCurrentSituation takes (lines 189-238).
Classify(summary, phase, iteration) ==
    IF summary.totalEntries < 3 /\ phase = "EXPLORE" THEN "broad"
    ELSE IF FracLT(summary.confidenceScore, 700) /\ phase = "THINK" THEN "deep"
    ELSE IF FracGE(summary.confidenceScore, 800) \/ iteration >= 5 THEN "decide"
    ELSE "targeted"

\* The returned flags with none of them set by the last branch.
AnalysisOfUnflaggedElse(branch) ==
    [needsMoreExploration |-> branch = "broad",
     needsDeepReasoning |-> branch = "deep",
     canMakeDecision |-> branch = "decide",
     explorationStrategy |->
         CASE branch = "broad" -> <<"auto_explore", "read_key_files", "search_patterns">>
           [] branch = "targeted" -> <<"targeted_search", "deep_file_analysis">>
           [] OTHER -> <<>>]

AnalysisOf(branch) ==
    [needsMoreExploration |-> branch \in {"broad", "targeted"},
     needsDeepReasoning |-> branch = "deep",
     canMakeDecision |-> branch = "decide",
     explorationStrategy |->
         CASE branch = "broad" -> <<"auto_explore", "read_key_files", "search_patterns">>
           [] branch = "targeted" -> <<"targeted_search", "deep_file_analysis">>
           [] OTHER -> <<>>]

AnalyzeCurrentSituation ==
    /\ pcRun = "analyze"
    /\ LET summary == GenerateSummary(entries)
           branch == Classify(summary, currentPhase, currentIteration)
       IN  /\ thoughtChain' = Append(thoughtChain,
                   Thought("THINK", "classify_" \o branch, summary.confidenceScore))
           /\ analysis' = AnalysisOf(branch)
    /\ pcRun' = "dispatch"
    /\ UNCHANGED <<decideSite, decisionCalls, startIteration, runResult>>
    /\ UNCHANGED <<storeVars, now, trVars, thinkingSteps, fdVars, ctxVars, pendingSeen>>

\* performIntelligentExploration: the thoughts it appends.
ExplorationThoughts(strategy) ==
    <<Thought("EXPLORE", "explore_start", Frac(700, 1000))>>
    \o [i \in 1..Len(strategy) |-> Thought("EXPLORE", "explore_step", Frac(800, 1000))]
    \o <<Thought("REFLECT", "explore_done", Frac(750, 1000))>>

\* analyzeActionResult: the confidence given to a registered result.
AnalyzeActionResult(result) ==
    CASE result = "error" -> 400
      [] result = "long" -> 900
      [] OTHER -> 600

Milli(f) == (f.num * 1000) \div f.den

ISqrt(v) == CHOOSE r \in 0..1000 : r * r <= v /\ v < (r + 1) * (r + 1)

RECURSIVE SumMilli(_)
SumMilli(ts) == IF ts = <<>> THEN 0 ELSE Milli(Head(ts).confidence) + SumMilli(Tail(ts))

RECURSIVE SumSquares(_, _)
SumSquares(ts, avg) ==
    IF ts = <<>> THEN 0
    ELSE (Milli(Head(ts).confidence) - avg) * (Milli(Head(ts).confidence) - avg)
             + SumSquares(Tail(ts), avg)

\* calculateThoughtConsistency, in thousandths (rounded down).
CalculateThoughtConsistency(chain) ==
    IF Len(chain) < 2 THEN 500
    ELSE LET avg == SumMilli(chain) \div Len(chain)
             variance == SumSquares(chain, avg) \div Len(chain)
         IN  Max(0, 1000 - ISqrt(variance))

\* The sum of the three terms, without the cap at 1.
ConvergenceUncapped(summary, iterations, chain) ==
    Frac(Milli(summary.confidenceScore) + Min(300, iterations * 50)
             + (CalculateThoughtConsistency(chain) * 200) \div 1000, 1000)

\* updateConvergenceLevel, in thousandths (rounded down).
ConvergenceOf(summary, iterations, chain) ==
    LET dataConfidence == Milli(summary.confidenceScore)
        iterationBonus == Min(300, iterations * 50)
        consistencyBonus == (CalculateThoughtConsistency(chain) * 200) \div 1000
    IN  Frac(Min(1000, dataConfidence + iterationBonus + consistencyBonus), 1000)

\* updateConvergenceLevel (lines 374-385) applied to the store, the
\* iteration count and the thought log as they are.
UpdateConvergenceLevel ==
    /\ NoCall
    /\ convergenceLevel' = ConvergenceOf(GenerateSummary(entries), currentIteration, thoughtChain)
    /\ UNCHANGED <<currentIteration, totalIterations, isThinkingActive, lastActionResult>>
    /\ UNCHANGED <<storeVars, now, trVars, thinkingSteps, fdVars, thoughtChain, runVars, pendingSeen>>

\* Lines 99-128 of the loop body, after analyzeCurrentSituation returned:
\* exploration (continue), deep reasoning (awaits toughReasoning), decision,
\* or the fall-through to reflection and the convergence test.
Dispatch ==
    /\ pcRun = "dispatch"
    /\ IF analysis.needsMoreExploration
       THEN /\ thoughtChain' = thoughtChain \o ExplorationThoughts(analysis.explorationStrategy)
            /\ pcRun' = "loop"
            /\ UNCHANGED <<trVars, decideSite, lastActionResult, convergenceLevel>>
       ELSE IF analysis.needsDeepReasoning
       THEN /\ thoughtChain' = Append(thoughtChain,
                                      Thought("THINK", "deep_start", Frac(600, 1000)))
            /\ ToughFrame("deep", 3, 800)
            /\ pcRun' = "deep_wait"
            /\ UNCHANGED <<decideSite, lastActionResult, convergenceLevel>>
       ELSE IF analysis.canMakeDecision
       THEN /\ pcRun' = "decide"
            /\ decideSite' = "loop"
            /\ UNCHANGED <<trVars, thoughtChain, lastActionResult, convergenceLevel>>
       ELSE /\ thoughtChain' =
                   IF lastActionResult # NoResult
                   THEN Append(thoughtChain,
                               Thought("REFLECT", "reflect_result",
                                       Frac(AnalyzeActionResult(lastActionResult), 1000)))
                   ELSE thoughtChain
            /\ lastActionResult' = NoResult
            /\ convergenceLevel' =
                   ConvergenceOf(GenerateSummary(entries), currentIteration, thoughtChain')
            /\ IF FracGE(convergenceLevel', ConvergenceThreshold)
               THEN pcRun' = "decide" /\ decideSite' = "convergence"
               ELSE pcRun' = "pause" /\ UNCHANGED decideSite
            /\ UNCHANGED trVars
    /\ UNCHANGED <<currentIteration, totalIterations, isThinkingActive>>
    /\ UNCHANGED <<analysis, decisionCalls, startIteration, runResult>>
    /\ UNCHANGED <<storeVars, now, thinkingSteps, fdVars, pendingSeen>>

\* performDeepReasoning after toughReasoning(3, 0.8) returned; continue.
DeepReasoningFinish ==
    /\ pcRun = "deep_wait"
    /\ trPc = "ret" /\ trCaller = "deep"
    /\ thoughtChain' = Append(thoughtChain, Thought("THINK", "deep_done", ToughResult.confidence))
    /\ ToughFrameDropped
    /\ pcRun' = "loop"
    /\ UNCHANGED <<analysis, decideSite, decisionCalls, startIteration, runResult>>
    /\ UNCHANGED <<storeVars, now, thinkingSteps, fdVars, ctxVars, pendingSeen>>

\* makeIntelligentDecision up to the await of the gate's makeFinalDecision.
MakeIntelligentDecisionStart ==
    /\ pcRun = "decide"
    /\ thoughtChain' = Append(thoughtChain,
           Thought("EXECUTE", "decision_start", GenerateSummary(entries).confidenceScore))
    /\ FinalDecisionFrame("run")
    /\ UNCHANGED handler
    /\ decisionCalls' = decisionCalls + 1
    /\ pcRun' = "decide_wait"
    /\ UNCHANGED <<analysis, decideSite, startIteration, runResult>>
    /\ UNCHANGED <<storeVars, now, trVars, thinkingSteps, ctxVars, pendingSeen>>

\* makeIntelligentDecision after the gate returned, and the return of
\* executeThinkingLoop (lines 113-114, 126-127, 139-140).
MakeIntelligentDecisionFinish ==
    /\ pcRun = "decide_wait"
    /\ fdPc = "ret" /\ fdCaller = "run"
    /\ thoughtChain' = Append(thoughtChain,
                              Thought("EXECUTE", "decision_made", fdResult.confidence))
    /\ runResult' = [finalDecision |-> fdResult.decision, confidence |-> fdResult.confidence,
                     thoughtProcess |-> Len(thoughtChain')]
    /\ isThinkingActive' = FALSE
    /\ pcRun' = "returned"
    /\ FinalDecisionFrameDropped
    /\ UNCHANGED handler
    /\ UNCHANGED <<currentIteration, totalIterations, lastActionResult, convergenceLevel>>
    /\ UNCHANGED <<analysis, decideSite, decisionCalls, startIteration>>
    /\ UNCHANGED <<storeVars, now, trVars, thinkingSteps, pendingSeen>>

\* ------------------------------------------------- ReasoningToolHandler
\* block.params.function || block.params.reasoning_function
FunctionName(params) ==
    IF Truthy(params.function) THEN params.function ELSE params.reasoning_function

\* x || d for a number: 0 and an absent parameter both give the default.
OrDefault(x, d) == IF x = 0 THEN d ELSE x

\* execute is entered with the block's parameters.
Entered(params) ==
    [handler EXCEPT !.params = params,
                    !.functionName = FunctionName(params),
                    !.repeated = (handler.pc = "ret" /\ handler.params = params),
                    !.maxIterations = 0, !.minConfidence = 0, !.response = "none"]

\* execute returns a response without having awaited anything.
Returned(params, response) ==
    [Entered(params) EXCEPT !.pc = "ret", !.response = response]

\* The functions that only read and format: exploration_summary,
\* check_cache, get_exploration_recommendations, thinking_history and
\* intelligent_thinking_history.
GenerateExplorationSummary(params) ==
    /\ NoCall
    /\ FunctionName(params) = "exploration_summary"
    /\ handler' = Returned(params, "summary")
    /\ UNCHANGED <<fdPc, fdCaller, fdSummary, fdToughCalls, fdResult, baResult, arResult>>
    /\ UNCHANGED <<storeVars, now, trVars, thinkingSteps, thoughtChain, ctxVars, runVars, pendingSeen>>

CheckCacheStatus(params) ==
    /\ NoCall
    /\ FunctionName(params) = "check_cache"
    /\ handler' = Returned(params,
                           IF HasExplored(params.tool_name, params.query, params.file_path)
                           THEN "cache_hit" ELSE "cache_miss")
    /\ UNCHANGED <<fdPc, fdCaller, fdSummary, fdToughCalls, fdResult, baResult, arResult>>
    /\ UNCHANGED <<storeVars, now, trVars, thinkingSteps, thoughtChain, ctxVars, runVars, pendingSeen>>

GetExplorationRecommendations(params) ==
    /\ NoCall
    /\ FunctionName(params) = "get_exploration_recommendations"
    /\ handler' = Returned(params, "recommendations")
    /\ UNCHANGED <<fdPc, fdCaller, fdSummary, fdToughCalls, fdResult, baResult, arResult>>
    /\ UNCHANGED <<storeVars, now, trVars, thinkingSteps, thoughtChain, ctxVars, runVars, pendingSeen>>

GetThinkingHistory(params) ==
    /\ NoCall
    /\ FunctionName(params) = "thinking_history"
    /\ handler' = Returned(params, IF handler.engine THEN "history" ELSE "unavailable")
    /\ UNCHANGED <<fdPc, fdCaller, fdSummary, fdToughCalls, fdResult, baResult, arResult>>
    /\ UNCHANGED <<storeVars, now, trVars, thinkingSteps, thoughtChain, ctxVars, runVars, pendingSeen>>

GetIntelligentThinkingHistory(params) ==
    /\ NoCall
    /\ FunctionName(params) = "intelligent_thinking_history"
    /\ handler' = Returned(params, IF handler.system THEN "history" ELSE "unavailable")
    /\ UNCHANGED <<fdPc, fdCaller, fdSummary, fdToughCalls, fdResult, baResult, arResult>>
    /\ UNCHANGED <<storeVars, now, trVars, thinkingSteps, thoughtChain, ctxVars, runVars, pendingSeen>>

\* The default branch: a tool-error response whose state changes besides.
UnknownReasoningFunctionLogged(params) ==
    /\ NoCall
    /\ FunctionName(params) \notin {"exploration_summary", "tough_reasoning", "check_cache",
                                     "get_exploration_recommendations", "thinking_history",
                                     "final_decision", "intelligent_thinking",
                                     "intelligent_thinking_history"}
    /\ handler' = Returned(params, "error")
    /\ thinkingSteps' = Append(thinkingSteps, Step(currentPhase, "unknown", Frac(0, 1000)))
    /\ UNCHANGED <<fdPc, fdCaller, fdSummary, fdToughCalls, fdResult, baResult, arResult>>
    /\ UNCHANGED <<storeVars, now, trVars, thoughtChain, ctxVars, runVars, pendingSeen>>

\* The default branch of the switch: formatResponse.toolError(...).
UnknownReasoningFunction(params) ==
    /\ NoCall
    /\ FunctionName(params) \notin {"exploration_summary", "tough_reasoning", "check_cache",
                                     "get_exploration_recommendations", "thinking_history",
                                     "final_decision", "intelligent_thinking",
                                     "intelligent_thinking_history"}
    /\ handler' = Returned(params, "error")
    /\ UNCHANGED <<fdPc, fdCaller, fdSummary, fdToughCalls, fdResult, baResult, arResult>>
    /\ UNCHANGED <<storeVars, now, trVars, thinkingSteps, thoughtChain, ctxVars, runVars, pendingSeen>>

\* tough_reasoning up to the await of line 71.
PerformToughReasoningCall(params) ==
    /\ NoCall
    /\ FunctionName(params) = "tough_reasoning"
    /\ handler' = [Entered(params) EXCEPT
                       !.pc = "tough_wait",
                       !.maxIterations = OrDefault(params.max_iterations, 5),
                       !.minConfidence = OrDefault(params.min_confidence, 850)]
    /\ ToughFrame("handler", handler'.maxIterations, handler'.minConfidence)
    /\ UNCHANGED <<fdPc, fdCaller, fdSummary, fdToughCalls, fdResult, baResult, arResult>>
    /\ UNCHANGED <<storeVars, now, thinkingSteps, thoughtChain, ctxVars, runVars, pendingSeen>>

\* Lines 73-91 with the phase advanced whatever the confidence.
PerformToughReasoningAlwaysAdvances ==
    /\ handler.pc = "tough_wait"
    /\ trPc = "ret" /\ trCaller = "handler"
    /\ currentPhase' = NextPhase(currentPhase)
    /\ handler' = [handler EXCEPT !.pc = "ret", !.response = "tough_transition"]
    /\ ToughFrameDropped
    /\ UNCHANGED <<fdPc, fdCaller, fdSummary, fdToughCalls, fdResult, baResult, arResult>>
    /\ UNCHANGED <<entries, cache, addCalls, explorationStartTime, now, thinkingSteps,
                   thoughtChain, ctxVars, runVars, pendingSeen>>

\* Lines 73-91, after toughReasoning returned: the result is rendered, and
\* if its confidence is >= minConfidence the store's transitionToNextPhase
\* is called and the output says "Moved to EXECUTE phase".
PerformToughReasoningFinish ==
    /\ handler.pc = "tough_wait"
    /\ trPc = "ret" /\ trCaller = "handler"
    /\ IF FracGE(ToughResult.confidence, handler.minConfidence)
       THEN /\ currentPhase' = NextPhase(currentPhase)
            /\ handler' = [handler EXCEPT !.pc = "ret", !.response = "tough_transition"]
       ELSE /\ currentPhase' = currentPhase
            /\ handler' = [handler EXCEPT !.pc = "ret", !.response = "tough"]
    /\ ToughFrameDropped
    /\ UNCHANGED <<fdPc, fdCaller, fdSummary, fdToughCalls, fdResult, baResult, arResult>>
    /\ UNCHANGED <<entries, cache, addCalls, explorationStartTime, now, thinkingSteps,
                   thoughtChain, ctxVars, runVars, pendingSeen>>

\* final_decision: without a gate the message of line 158, otherwise up
\* to the await of line 162.
HandlerMakeFinalDecisionCall(params) ==
    /\ NoCall
    /\ FunctionName(params) = "final_decision"
    /\ Len(thinkingSteps) < MaxSteps
    /\ IF handler.engine
       THEN /\ handler' = [Entered(params) EXCEPT !.pc = "decision_wait"]
            /\ fdPc' = "start" /\ fdCaller' = "handler"
            /\ fdToughCalls' = 0 /\ fdResult' = NoGateResult
            /\ UNCHANGED <<fdSummary, baResult, arResult>>
       ELSE /\ handler' = Returned(params, "unavailable")
            /\ UNCHANGED <<fdPc, fdCaller, fdSummary, fdToughCalls, fdResult, baResult, arResult>>
    /\ UNCHANGED <<storeVars, now, trVars, thinkingSteps, thoughtChain, ctxVars, runVars, pendingSeen>>

\* Lines 164-176, after the gate's makeFinalDecision returned.
HandlerMakeFinalDecisionFinish ==
    /\ handler.pc = "decision_wait"
    /\ fdPc = "ret" /\ fdCaller = "handler"
    /\ handler' = [handler EXCEPT !.pc = "ret", !.response = "decision"]
    /\ fdPc' = "idle" /\ fdCaller' = "none" /\ fdSummary' = GenerateSummary(<<>>)
    /\ fdToughCalls' = 0 /\ fdResult' = NoGateResult
    /\ UNCHANGED <<baResult, arResult>>
    /\ UNCHANGED <<storeVars, now, trVars, thinkingSteps, thoughtChain, ctxVars, runVars, pendingSeen>>

\* intelligent_thinking: without a controller the message of line 184,
\* otherwise executeThinkingLoop(max_iterations || 5) is entered.
ExecuteIntelligentThinkingCall(params) ==
    /\ NoCall
    /\ FunctionName(params) = "intelligent_thinking"
    /\ IF handler.system
       THEN /\ Len(thoughtChain) <= MaxThoughts
            /\ handler' = [Entered(params) EXCEPT
                               !.pc = "thinking_wait",
                               !.maxIterations = OrDefault(params.max_iterations, 5)]
            /\ totalIterations' = handler'.maxIterations
            /\ pcRun' = "loop"
            /\ analysis' = NoAnalysis
            /\ decideSite' = "none"
            /\ decisionCalls' = 0
            /\ startIteration' = currentIteration
            /\ runResult' = NoRunResult
       ELSE /\ handler' = Returned(params, "unavailable")
            /\ UNCHANGED <<totalIterations, runVars>>
    /\ UNCHANGED <<fdPc, fdCaller, fdSummary, fdToughCalls, fdResult, baResult, arResult>>
    /\ UNCHANGED <<currentIteration, isThinkingActive, lastActionResult, convergenceLevel>>
    /\ UNCHANGED <<storeVars, now, trVars, thinkingSteps, thoughtChain, pendingSeen>>

\* Lines 190-203, after executeThinkingLoop returned or threw.
ExecuteIntelligentThinkingFinish ==
    /\ handler.pc = "thinking_wait"
    /\ pcRun \in {"returned", "thrown"}
    /\ handler' = [handler EXCEPT !.pc = "ret",
                                  !.response = IF pcRun = "thrown" THEN "caught" ELSE "thinking"]
    /\ UNCHANGED <<fdPc, fdCaller, fdSummary, fdToughCalls, fdResult, baResult, arResult>>
    /\ UNCHANGED <<storeVars, now, trVars, thinkingSteps, thoughtChain, ctxVars, runVars, pendingSeen>>

\* ------------------------------------------- collaborators that throw
\* The store and the gate are injected through the constructor.  The
\* classes of this repository do not throw; these actions stand for
\* substitutes that do, at the three places where the loop calls them.
StoreThrowsInAnalyze ==
    /\ pcRun = "analyze"
    /\ pcRun' = "catch"
    /\ UNCHANGED <<analysis, decideSite, decisionCalls, startIteration, runResult>>
    /\ UNCHANGED <<storeVars, now, trVars, thinkingSteps, fdVars, thoughtChain, ctxVars, pendingSeen>>

StoreThrowsInDeepReasoning ==
    /\ pcRun = "deep_wait"
    /\ trPc = "iter" /\ trCaller = "deep"
    /\ ToughFrameDropped
    /\ pcRun' = "catch"
    /\ UNCHANGED <<analysis, decideSite, decisionCalls, startIteration, runResult>>
    /\ UNCHANGED <<storeVars, now, thinkingSteps, fdVars, thoughtChain, ctxVars, pendingSeen>>

\* Inside the try block (lines 112, 125) the exception reaches the catch;
\* at the forced decision of line 138 nothing catches it.
GateThrowsInDecision ==
    /\ pcRun = "decide_wait"
    /\ fdPc = "start" /\ fdCaller = "run"
    /\ FinalDecisionFrameDropped
    /\ UNCHANGED handler
    /\ pcRun' = IF decideSite = "forced" THEN "thrown" ELSE "catch"
    /\ UNCHANGED <<analysis, decideSite, decisionCalls, startIteration, runResult>>
    /\ UNCHANGED <<storeVars, now, trVars, thinkingSteps, thoughtChain, ctxVars, pendingSeen>>

\* handleThinkingError logging a neutral THINK thought.
ErrorThoughtNeutral == Thought("THINK", "error", Frac(500, 1000))

\* The thought handleThinkingError appends.
ErrorThought == Thought("REFLECT", "error", Frac(300, 1000))

\* The catch block, line 130.
HandleThinkingError ==
    /\ pcRun = "catch"
    /\ thoughtChain' = Append(thoughtChain, ErrorThought)
    /\ pcRun' = "pause"
    /\ UNCHANGED <<analysis, decideSite, decisionCalls, startIteration, runResult>>
    /\ UNCHANGED <<storeVars, now, trVars, thinkingSteps, fdVars, ctxVars, pendingSeen>>

\* simulateThinkingPause(200), line 134: the timer fires.
SimulateThinkingPause ==
    /\ pcRun = "pause"
    /\ pcRun' = "loop"
    /\ UNCHANGED <<analysis, decideSite, decisionCalls, startIteration, runResult>>
    /\ UNCHANGED <<storeVars, now, trVars, thinkingSteps, fdVars, thoughtChain, ctxVars, pendingSeen>>

\* ------------------------------------------------------- specifications
\* The store alone, with toughReasoning called on it directly.
NextStore ==
    \/ Tick
    \/ \E conf \in ConfValues : AddEntry("search_files", conf)
    \/ TransitionToNextPhase
    \/ Reset
    \/ \E m \in 1..MaxToughIterations, c \in ToughMinValues : ToughReasoningCall(m, c)
    \/ ToughIterate
    \/ ToughResume

SpecStore == Init /\ [][NextStore]_vars

\* The handler with the store, the gate and the controller behind it, on
\* a store that was filled before, in any phase, while the clock runs.
InitHandler ==
    /\ \E n \in HandlerCounts, confs \in HandlerConfidences : StoreFilled(n, confs)
    /\ currentPhase \in Phases
    /\ thinkingSteps = <<>>
    /\ thoughtChain = <<>>
    /\ currentIteration = 0 /\ totalIterations = 0 /\ isThinkingActive = FALSE
    /\ lastActionResult = NoResult /\ convergenceLevel = Frac(0, 1000)
    /\ \E e \in BOOLEAN, y \in BOOLEAN :
          handler = [NoHandlerCall EXCEPT !.engine = e, !.system = y]
    /\ IdleFrames

NextHandler ==
    \/ Tick
    \/ InitializeIntelligentThinking
    \/ \E params \in KnownBlocks : GenerateExplorationSummary(params)
    \/ \E params \in KnownBlocks : CheckCacheStatus(params)
    \/ \E params \in KnownBlocks : GetExplorationRecommendations(params)
    \/ \E params \in KnownBlocks : GetThinkingHistory(params)
    \/ \E params \in KnownBlocks : GetIntelligentThinkingHistory(params)
    \/ \E params \in UnknownBlocks : UnknownReasoningFunction(params)
    \/ \E params \in KnownBlocks : PerformToughReasoningCall(params)
    \/ PerformToughReasoningFinish
    \/ \E params \in KnownBlocks : HandlerMakeFinalDecisionCall(params)
    \/ HandlerMakeFinalDecisionFinish
    \/ \E params \in KnownBlocks : ExecuteIntelligentThinkingCall(params)
    \/ ExecuteIntelligentThinkingFinish
    \/ LoopHead
    \/ AnalyzeCurrentSituation
    \/ Dispatch
    \/ DeepReasoningFinish
    \/ MakeIntelligentDecisionStart
    \/ MakeIntelligentDecisionFinish
    \/ MakeFinalDecisionStart
    \/ MakeFinalDecisionFinish
    \/ ToughIterate
    \/ ToughResume

SpecHandler == InitHandler /\ [][NextHandler]_vars

\* The controller on a store that was filled before, in any phase, and
\* that nobody modifies: the owner registers a result, initializes the
\* controller and runs it, in any order and more than once.
InitLoop ==
    /\ \E n \in LoopCounts, confs \in LoopConfidences : StoreFilled(n, confs)
    /\ currentPhase \in Phases
    /\ thinkingSteps = <<>>
    /\ thoughtChain = <<>>
    /\ currentIteration = 0 /\ totalIterations = 0 /\ isThinkingActive = FALSE
    /\ lastActionResult = NoResult /\ convergenceLevel = Frac(0, 1000)
    /\ handler = NoHandlerCall
    /\ IdleFrames

NextLoop ==
    \/ \E r \in Results : thoughtChain = <<>> /\ lastActionResult = NoResult
                              /\ RegisterActionResult(r)
    \/ InitializeIntelligentThinkingUpTo(MaxLoopThoughts)
    \/ \E m \in LoopBudgets : ExecuteThinkingLoopUpTo(MaxLoopThoughts, m)
    \/ LoopHead
    \/ AnalyzeCurrentSituation
    \/ Dispatch
    \/ DeepReasoningFinish
    \/ MakeIntelligentDecisionStart
    \/ MakeIntelligentDecisionFinish
    \/ MakeFinalDecisionStart
    \/ MakeFinalDecisionFinish
    \/ ToughIterate
    \/ ToughResume

SpecLoop == InitLoop /\ [][NextLoop]_vars

\* The controller run again and again, with and without initializing in
\* between, stopped by its caller whenever the program is suspended, with a
\* store and a gate that may throw.
InitRerun == InitLoop /\ Len(entries) \in RerunCounts

NextRerun ==
    \/ InitializeIntelligentThinkingUpTo(MaxLoopThoughts)
    \/ StopThinking
    \/ \E m \in 1..MaxRunIterations : ExecuteThinkingLoopUpTo(MaxLoopThoughts, m)
    \/ LoopHead
    \/ AnalyzeCurrentSituation
    \/ Dispatch
    \/ DeepReasoningFinish
    \/ MakeIntelligentDecisionStart
    \/ MakeIntelligentDecisionFinish
    \/ MakeFinalDecisionStart
    \/ MakeFinalDecisionFinish
    \/ ToughIterate
    \/ ToughResume
    \/ StoreThrowsInAnalyze
    \/ StoreThrowsInDeepReasoning
    \/ GateThrowsInDecision
    \/ HandleThinkingError
    \/ SimulateThinkingPause

SpecRerun == InitRerun /\ [][NextRerun]_vars

\* toughReasoning on stores of up to MaxPrefill entries, up to MaxDepth
\* iterations, while the clock runs and the owner adds entries.
NextTough ==
    \/ TickUntil(MaxElapsed)
    \/ AddEntry("search_files", 1000)
    \/ \E m \in ToughDepths, c \in ToughMinInputs : ToughReasoningCall(m, c)
    \/ ToughIterate
    \/ ToughResume

SpecTough == InitTough /\ [][NextTough]_vars

\* beforeAction and afterResult on stores of up to MaxStored entries.
NextEval ==
    \/ \E call \in EvalCalls : ThinkBeforeAction(call[1], call[2])
    \/ \E result \in EvalResults :
          AnalyzeResultUpTo(MaxStored, EvalStored[1], EvalStored[2], result)

SpecEval == InitEval /\ [][NextEval]_vars

\* The convergence computation on its arguments.
NextConverge ==
    \/ UpdateConvergenceLevel
    \/ AddEntry("search_files", 1000)

SpecConverge == InitConverge /\ [][NextConverge]_vars

\* The gate's makeFinalDecision on a store that its caller fills.
NextGate ==
    \/ \E conf \in GateConfValues : AddEntry("read_file", conf)
    \/ MakeFinalDecisionCall
    \/ MakeFinalDecisionStart
    \/ MakeFinalDecisionFinish
    \/ ToughIterate
    \/ ToughResume

SpecGate == Init /\ [][NextGate]_vars

\* The store with its cache, filled by its owner.
NextCache ==
    \/ Tick
    \/ \E in \in CacheInputs : AddEntryKeyed(in[1], in[2], in[3], in[4])
    \/ TransitionToNextPhase
    \/ Reset

SpecCache == Init /\ [][NextCache]_vars

\* The gate around the external executor: beforeAction and afterResult.
NextAction ==
    \/ InitializeTask
    \/ \E call \in GateCalls : ThinkBeforeAction(call[1], call[2])
    \/ \E call \in GateCalls, result \in GateResults : AnalyzeResult(call[1], call[2], result)
    \/ Reset

SpecAction == Init /\ [][NextAction]_vars

\* The decision path: the gate's makeFinalDecision called directly and by
\* a run in the EXPLORE phase, on a store that its owner fills whenever the
\* program is suspended.
NextDecide ==
    \/ \E conf \in ConfValues : AddEntry("read_file", conf)
    \/ InitializeIntelligentThinking
    \/ \E m \in {0, MaxRunIterations} : ExecuteThinkingLoop(m)
    \/ LoopHead
    \/ AnalyzeCurrentSituation
    \/ Dispatch
    \/ MakeIntelligentDecisionStart
    \/ MakeIntelligentDecisionFinish
    \/ MakeFinalDecisionCall
    \/ MakeFinalDecisionStart
    \/ MakeFinalDecisionFinish
    \/ ToughIterate
    \/ ToughResume

SpecDecide == Init /\ [][NextDecide]_vars

\* Every operation of the store, the gate and the controller.  The owner
\* fills the store, and then either works with the gate and the store
\* directly or hands the store to the controller.
FrameCall == <<"search_files", [path |-> NoPath, regex |-> "Auth"]>>

\* The controller has not been started.
BeforeController == pcRun = "idle" /\ thoughtChain = <<>>

\* Neither the gate nor toughReasoning has been used.
GateUnused == thinkingSteps = <<>> /\ fdPc = "idle" /\ trPc = "idle"

NextFrame ==
    \/ BeforeController /\ GateUnused /\ AddEntryKeyed(FrameCall[1], "Auth", NoPath, 900)
    \/ \E r \in Results : BeforeController /\ GateUnused /\ RegisterActionResult(r)
    \/ BeforeController /\ GateUnused /\ TransitionToNextPhase
    \/ BeforeController /\ NoCall /\ Reset
    \/ BeforeController /\ InitializeTask
    \/ BeforeController /\ ThinkBeforeAction(FrameCall[1], FrameCall[2])
    \/ BeforeController /\ AnalyzeResult(FrameCall[1], FrameCall[2], "long")
    \/ BeforeController /\ MakeFinalDecisionCall
    \/ BeforeController /\ ToughReasoningCall(1, 850)
    \/ GateUnused /\ InitializeIntelligentThinking
    \/ ExecuteThinkingLoop(MaxRunIterations)
    \/ LoopHead
    \/ AnalyzeCurrentSituation
    \/ Dispatch
    \/ DeepReasoningFinish
    \/ MakeIntelligentDecisionStart
    \/ MakeIntelligentDecisionFinish
    \/ MakeFinalDecisionStart
    \/ MakeFinalDecisionFinish
    \/ ToughIterate
    \/ ToughResume

SpecFrame == Init /\ [][NextFrame]_vars

\* The controller, with the store and the gate of this repository.  The
\* caller fills the store and moves the phase between calls; it registers
\* results and stops the thinking whenever the program is suspended.
Next ==
    \/ \E conf \in ConfValues : NoCall /\ AddEntry("read_file", conf)
    \/ NoCall /\ TransitionToNextPhase
    \/ InitializeIntelligentThinking
    \/ \E r \in Results : RegisterActionResult(r)
    \/ StopThinking
    \/ \E m \in 0..MaxRunIterations : ExecuteThinkingLoop(m)
    \/ LoopHead
    \/ AnalyzeCurrentSituation
    \/ Dispatch
    \/ DeepReasoningFinish
    \/ MakeIntelligentDecisionStart
    \/ MakeIntelligentDecisionFinish
    \/ MakeFinalDecisionStart
    \/ MakeFinalDecisionFinish
    \/ ToughIterate
    \/ ToughResume

Spec == Init /\ [][Next]_vars

\* The controller with a store and a gate that may throw.  The caller
\* prepares the store and the phase before a run and stops the thinking
\* whenever the program is suspended.
NextThrow ==
    \/ \E conf \in ConfValues : pcRun = "idle" /\ NoCall /\ AddEntry("read_file", conf)
    \/ pcRun = "idle" /\ NoCall /\ TransitionToNextPhase
    \/ InitializeIntelligentThinking
    \/ StopThinking
    \/ \E m \in 0..MaxRunIterations : ExecuteThinkingLoop(m)
    \/ LoopHead
    \/ AnalyzeCurrentSituation
    \/ Dispatch
    \/ DeepReasoningFinish
    \/ MakeIntelligentDecisionStart
    \/ MakeIntelligentDecisionFinish
    \/ MakeFinalDecisionStart
    \/ MakeFinalDecisionFinish
    \/ ToughIterate
    \/ ToughResume
    \/ StoreThrowsInAnalyze
    \/ StoreThrowsInDeepReasoning
    \/ GateThrowsInDecision
    \/ HandleThinkingError
    \/ SimulateThinkingPause

SpecThrow == Init /\ [][NextThrow]_vars

\* The steps of the program itself; the event loop runs them whenever
\* they are enabled (a timer that was set does fire).
Program ==
    \/ LoopHead
    \/ AnalyzeCurrentSituation
    \/ Dispatch
    \/ DeepReasoningFinish
    \/ MakeIntelligentDecisionStart
    \/ MakeIntelligentDecisionFinish
    \/ MakeFinalDecisionStart
    \/ MakeFinalDecisionFinish
    \/ ToughIterate
    \/ ToughResume

FairSpec == Spec /\ WF_vars(Program)

\* ================================================================ claims
InRun == pcRun \notin {"idle", "returned", "thrown"}

Score(es) == GenerateSummary(es).confidenceScore

Last(seq) == seq[Len(seq)]

\* C1: a run entered with currentIteration = 0 (after initialize) ends, and
\* when it has returned it has executed at most maxIterations iterations, it
\* carries a decision obtained from exactly one call of the gate's
\* finalDecision (the forced one when no iteration decided), and
\* isThinking() is false.
C1_ReturnState ==
    (pcRun = "returned" /\ startIteration = 0) =>
        /\ currentIteration <= totalIterations
        /\ runResult # NoRunResult
        /\ runResult.finalDecision \in {"high", "moderate", "more_analysis"}
        /\ decisionCalls = 1
        /\ decideSite \in {"loop", "convergence", "forced"}
        /\ ~isThinkingActive

C1_RunTerminates == []C1_ReturnState /\ (InRun ~> (pcRun = "returned"))

C1_Witness ==
    /\ pcRun = "returned" /\ startIteration = 0 /\ decideSite = "forced"
    /\ currentIteration = totalIterations /\ totalIterations = MaxRunIterations

\* C2: the iterations value returned by toughReasoning(maxIterations,
\* minConfidence) lies in 1..maxIterations, also when the loop ran to its cap.
C2_IterationsWithinCap ==
    trPc = "ret" => (1 <= ToughResult.iterations /\ ToughResult.iterations <= trMax)

\* C3 (as stated): with a store of at least one entry and confidenceScore
\* >= 0.8, in any phase, initialize followed by run(1) classifies its first
\* iteration can-decide and returns the decision from that iteration.
FirstOfOne == totalIterations = 1 /\ startIteration = 0 /\ currentIteration = 1

DecidesInIteration(pre) ==
    (FirstOfOne /\ pre) =>
        /\ pcRun = "analyze" => (pcRun' = "dispatch" /\ analysis'.canMakeDecision)
        /\ pcRun = "dispatch" => (pcRun' = "decide" /\ decideSite' = "loop")
        /\ (pcRun = "decide" /\ decideSite = "loop") => pcRun' = "decide_wait"
        /\ (pcRun = "decide_wait" /\ decideSite = "loop" /\ fdPc = "ret") =>
               /\ pcRun' = "returned"
               /\ currentIteration' = 1
               /\ runResult' # NoRunResult

C3_Original ==
    [][DecidesInIteration(Len(entries) >= 1 /\ FracGE(Score(entries), 800))]_vars

\* C3 (amended): the same, for every such store except one with fewer than
\* 3 entries while the phase is EXPLORE.
C3_DecidesInFirstIteration ==
    [][DecidesInIteration(/\ Len(entries) >= 1
                          /\ FracGE(Score(entries), 800)
                          /\ ~(Len(entries) < 3 /\ currentPhase = "EXPLORE"))]_vars

C3_Witness ==
    /\ pcRun = "returned" /\ decideSite = "loop" /\ FirstOfOne
    /\ runResult # NoRunResult

\* C4: a run that executed an iteration after a result was registered
\* returns with no result pending.
C4_ResultReflected ==
    (pcRun = "returned" /\ pendingSeen) => lastActionResult = NoResult

\* C5: an exception thrown inside a loop iteration reaches the catch block
\* of that iteration, which appends exactly one REFLECT thought of
\* confidence 0.3; the pacing pause follows and then the loop condition.
C5_ErrorCaughtInIteration ==
    [][ /\ pcRun' = "thrown" => decideSite = "forced"
        /\ (pcRun # "catch" /\ pcRun' = "catch") => thoughtChain' = thoughtChain
        /\ pcRun = "catch" =>
               /\ pcRun' = "pause"
               /\ thoughtChain' = Append(thoughtChain,
                                         Thought("REFLECT", "error", Frac(300, 1000)))
        /\ (pcRun = "pause" /\ pcRun' # "pause") => pcRun' = "loop"
        /\ (pcRun = "pause" /\ pcRun' = "pause") => thoughtChain' = thoughtChain
      ]_vars

C5_Witness ==
    /\ pcRun = "analyze" /\ currentIteration = 2
    /\ Len(thoughtChain) > 0 /\ Last(thoughtChain).kind = "error"

\* C6: run never propagates an exception to its caller.
C6_NeverPropagates == pcRun # "thrown"

\* C7: once the stop flag is set during a run, no further iteration starts
\* and no classification thought is appended: the iteration in progress
\* completes, the loop condition fails and control passes to the forced
\* decision.
C7_StopEndsLoop ==
    [][ (InRun /\ ~isThinkingActive) =>
            /\ currentIteration' = currentIteration
            /\ pcRun' # "analyze"
            /\ Len(thoughtChain') > Len(thoughtChain) =>
                   Last(thoughtChain').kind \in
                       {"explore_done", "deep_done", "error", "reflect_result",
                        "decision_start", "decision_made"}
            /\ pcRun = "loop" => (pcRun' = "decide" /\ decideSite' = "forced")
            /\ (pcRun = "deep_wait" /\ pcRun' # "deep_wait") =>
                   /\ pcRun' \in {"loop", "catch"}
                   /\ pcRun' = "loop" =>
                          Last(thoughtChain').kind = "deep_done"
      ]_vars

C7_Witness ==
    /\ ~isThinkingActive /\ pcRun = "decide" /\ decideSite = "forced"
    /\ currentIteration >= 1 /\ currentIteration < totalIterations

\* C8: every call of transitionToNextPhase (every step other than reset)
\* keeps or advances the phase by one step in EXPLORE < THINK < EXECUTE, and
\* leaves EXECUTE unchanged.
C8_PhaseMonotonic ==
    [][ Reset \/ ( /\ PhaseRank(currentPhase') >= PhaseRank(currentPhase)
                   /\ PhaseRank(currentPhase') <= PhaseRank(currentPhase) + 1
                   /\ currentPhase = "EXECUTE" => currentPhase' = "EXECUTE" ) ]_vars

C8_Witness == currentPhase = "EXECUTE" /\ Len(entries) > 0

\* C9: when makeFinalDecision returns, its decision is the bucket of the
\* store's confidenceScore c at that moment (c > 0.9 high, 0.7 < c <= 0.9
\* moderate, c <= 0.7 more analysis) and its action plan has 3 steps.
C9_DecisionBuckets ==
    [][ (fdPc # "ret" /\ fdPc' = "ret") =>
            LET c == Score(entries')
            IN  /\ FracGT(c, 900) => fdResult'.decision = "high"
                /\ (FracGT(c, 700) /\ ~FracGT(c, 900)) => fdResult'.decision = "moderate"
                /\ ~FracGT(c, 700) => fdResult'.decision = "more_analysis"
                /\ Len(fdResult'.actionPlan) = 3
      ]_vars

C9_Witness ==
    /\ fdPc = "ret" /\ fdResult.decision = "moderate"
    /\ FracEq(fdResult.confidence, Frac(900, 1000))

\* C10: makeFinalDecision calls toughReasoning(5, 0.85) once if the
\* confidenceScore at entry is < 0.8 and not at all otherwise; it appends
\* the THINK tough_reasoning step (in the first case only) and then, last,
\* the EXECUTE final_decision step.
C10_ToughOnceThenFinalStep ==
    [][ /\ (fdPc = "start" /\ fdPc' # "start") =>
               /\ thinkingSteps' = thinkingSteps
               /\ IF FracLT(Score(entries), 800)
                  THEN /\ fdToughCalls' = 1
                       /\ trPc' = "iter" /\ trCaller' = "gate"
                       /\ trMax' = 5 /\ trMin' = 850
                  ELSE /\ fdToughCalls' = 0
                       /\ trPc' = trPc
        /\ (fdPc # "ret" /\ fdPc' = "ret") =>
               /\ fdToughCalls' = (IF FracLT(fdSummary.confidenceScore, 800) THEN 1 ELSE 0)
               /\ Len(thinkingSteps') = Len(thinkingSteps) + 1 + fdToughCalls'
               /\ Last(thinkingSteps').phase = "EXECUTE"
               /\ Last(thinkingSteps').action = "final_decision"
               /\ fdToughCalls' = 1 =>
                      /\ thinkingSteps'[Len(thinkingSteps') - 1].phase = "THINK"
                      /\ thinkingSteps'[Len(thinkingSteps') - 1].action = "tough_reasoning"
        /\ ~(fdPc # "ret" /\ fdPc' = "ret") => thinkingSteps' = thinkingSteps
      ]_vars

C10_Witness ==
    /\ fdPc = "ret" /\ fdToughCalls = 1 /\ Len(thinkingSteps) = 2
    /\ thinkingSteps[1].action = "tough_reasoning"

\* The arithmetic mean of the confidences of a log, and the bucket of a
\* confidence, written out independently of the model.
RECURSIVE SumTo(_, _)
SumTo(es, n) == IF n = 0 THEN 0 ELSE es[n].confidence + SumTo(es, n - 1)

MeanOf(es) == IF Len(es) = 0 THEN Frac(0, 1) ELSE Frac(SumTo(es, Len(es)), 1000 * Len(es))

BucketOf(f) ==
    IF f.num * 10 > 9 * f.den THEN "high"
    ELSE IF f.num * 10 > 7 * f.den THEN "moderate"
    ELSE "more_analysis"

\* C11: the confidence returned by finalDecision, and the one returned by
\* run, is the mean of the entry confidences of the store at the moment the
\* decision is produced, and the decision is the bucket of that same value;
\* also after an exhausted iteration budget and after a forced
\* toughReasoning pass that computed another confidence.
C11_ConfidenceIsStoreMean ==
    [][ /\ (fdPc # "ret" /\ fdPc' = "ret") =>
              /\ FracEq(fdResult'.confidence, MeanOf(entries'))
              /\ fdResult'.decision = BucketOf(MeanOf(entries'))
        /\ (pcRun # "returned" /\ pcRun' = "returned") =>
              /\ FracEq(runResult'.confidence, MeanOf(entries'))
              /\ runResult'.finalDecision = BucketOf(MeanOf(entries')) ]_vars

C11_Witness ==
    /\ pcRun = "returned" /\ decideSite = "forced"
    /\ totalIterations >= 1 /\ currentIteration = totalIterations
    /\ Len(entries) > 0
    /\ \E i \in 1..Len(thinkingSteps) :
           /\ thinkingSteps[i].action = "tough_reasoning"
           /\ ~FracEq(thinkingSteps[i].confidence, runResult.confidence)

\* A step of beforeAction: it appends a cache_check or a tool_evaluation
\* step and leaves its answer in baResult.
IsBeforeAction ==
    /\ Len(thinkingSteps') = Len(thinkingSteps) + 1
    /\ thinkingSteps'[Len(thinkingSteps')].action \in {"cache_check", "tool_evaluation"}

\* The entry of the log was stored for this action kind and these params.
StoredFor(e, tool, params) ==
    /\ e.toolName = tool
    /\ e.query = ExtractQueryFromTool(tool, params)
    /\ e.filePath = params.path

LetterClasses ==
    { {"SEARCH_FILES", "Search_Files", "search_files"}, {"AUTH", "Auth", "auth"}, {"X", "x"} }

CaseVariants(str) ==
    IF \E c \in LetterClasses : str \in c
    THEN CHOOSE c \in LetterClasses : str \in c
    ELSE {str}

KeyOf(e) == GenerateCacheKey(e.toolName, e.query, e.filePath)

\* C13: after addEntry with (actionKind, query, filePath), hasExplored and
\* getCached succeed for every triple that differs from it only in the
\* letter case of any of the three components, and what getCached returns
\* is an entry of the log stored under the key of that triple.
C13_CaseInsensitiveLookup ==
    \A i \in 1..Len(entries) :
        \A tool \in CaseVariants(entries[i].toolName),
           query \in CaseVariants(entries[i].query),
           filePath \in CaseVariants(entries[i].filePath) :
            /\ HasExplored(tool, query, filePath)
            /\ \E j \in 1..Len(entries) :
                  /\ entries[j] = GetCachedResult(tool, query, filePath)
                  /\ KeyOf(entries[j]) = KeyOf(entries[i])

C13_Witness ==
    /\ \E i \in 1..Len(entries) :
          /\ entries[i].toolName = "SEARCH_FILES"
          /\ entries[i].query = "Auth"
          /\ entries[i].filePath = "X"
          /\ entries[i].seq = addCalls
    /\ HasExplored("search_files", "auth", "x")
    /\ GetCachedResult("search_files", "auth", "x").toolName = "SEARCH_FILES"

C14_State ==
    /\ \A x \in cache :
          \E j \in 1..Len(entries) :
              /\ entries[j] = x.entry
              /\ KeyOf(entries[j]) = x.key
              /\ \A k \in 1..Len(entries) :
                    KeyOf(entries[k]) = x.key => entries[k].seq <= entries[j].seq
    /\ \A i \in 1..Len(entries) :
          /\ CacheHas(cache, KeyOf(entries[i]))
          /\ CacheGet(cache, KeyOf(entries[i]))
               = GetCachedResult(entries[i].toolName, entries[i].query, entries[i].filePath)
    /\ {entries[i].seq : i \in 1..Len(entries)} = 1..addCalls
    /\ Len(entries) = addCalls
    /\ GenerateSummary(entries).totalEntries = addCalls

C14_Step ==
    \/ entries' = <<>> /\ addCalls' = 0
    \/ \A i \in 1..Len(entries) : \E j \in 1..Len(entries') : entries'[j] = entries[i]

\* C14: for every normalized key getCached returns the entry added last
\* under that key, that entry is in the log, every entry added since the
\* last reset is still in the log, and totalEntries is the number of
\* addEntry calls since then.
C14_LastWriteWins == []C14_State /\ [][C14_Step]_vars

C14_Witness ==
    /\ Len(entries) >= 2
    /\ \E i, j \in 1..Len(entries) :
          /\ entries[i].seq < entries[j].seq
          /\ KeyOf(entries[i]) = KeyOf(entries[j])
          /\ entries[i].confidence # entries[j].confidence
          /\ entries[j].seq = addCalls
          /\ GetCachedResult(entries[i].toolName, entries[i].query, entries[i].filePath)
               = entries[j]

\* C15 as stated: confidenceScore is the arithmetic mean of the confidences
\* of the log, and it is 0 if and only if the log is empty.
C15_Original ==
    /\ FracEq(GenerateSummary(entries).confidenceScore, MeanOf(entries))
    /\ (GenerateSummary(entries).confidenceScore.num = 0) <=> (Len(entries) = 0)

\* C15, amended: confidenceScore is the arithmetic mean of the confidences
\* of the log; it is 0 for the empty log, and for a log with entries it is
\* 0 exactly when every confidence in it is 0.
C15_MeanConfidence ==
    /\ FracEq(GenerateSummary(entries).confidenceScore, MeanOf(entries))
    /\ GenerateSummary(entries).confidenceScore.den > 0
    /\ Len(entries) = 0 => GenerateSummary(entries).confidenceScore.num = 0
    /\ (GenerateSummary(entries).confidenceScore.num = 0)
         <=> (\A i \in 1..Len(entries) : entries[i].confidence = 0)

C15_Witness ==
    /\ Len(entries) = 3
    /\ {entries[i].confidence : i \in 1..3} = {0, 300, 900}
    /\ FracEq(GenerateSummary(entries).confidenceScore, Frac(400, 1000))

\* C16: every entry gets a timestamp strictly greater than that of every
\* entry added before it, and the log is in reverse insertion order with
\* the entry added last at its head, whatever the clock read at the calls.
C16_NewestFirstByInsertion ==
    /\ \A i, j \in 1..Len(entries) :
          entries[i].seq > entries[j].seq => entries[i].timestamp > entries[j].timestamp
    /\ \A i, j \in 1..Len(entries) : i < j => entries[i].seq > entries[j].seq
    /\ Len(entries) > 0 => entries[1].seq = addCalls

\* C17: after reset() the log is empty, the cache is empty (hasExplored is
\* false for every key), the phase is EXPLORE, and the summary has
\* totalEntries 0, confidenceScore 0 and no key findings, as that of a
\* freshly constructed store.
C17_ResetIsFresh ==
    [][ Reset =>
          /\ entries' = <<>>
          /\ cache' = {}
          /\ \A in \in CacheInputs :
                \A tool \in CaseVariants(in[1]), query \in CaseVariants(in[2]),
                   filePath \in CaseVariants(in[3]) :
                    ~CacheHas(cache', GenerateCacheKey(tool, query, filePath))
          /\ currentPhase' = "EXPLORE"
          /\ explorationStartTime' = now'
          /\ GenerateSummary(entries').totalEntries = 0
          /\ GenerateSummary(entries').confidenceScore.num = 0
          /\ GenerateSummary(entries').keyFindings = 0
          /\ GenerateSummary(entries') = GenerateSummary(<<>>) ]_vars

C17_Witness ==
    /\ entries = <<>> /\ cache = {} /\ addCalls = 0
    /\ currentPhase = "EXPLORE"
    /\ explorationStartTime > 0 /\ explorationStartTime = now

\* The confidence of toughReasoning reached minConfidence.
ToughReached(conf, min) == conf.num * 1000 >= min * conf.den

C19_State ==
    /\ trPc = "pause" => ~ToughReached(trConf, trMin) /\ trConclusion = "insufficient"
    /\ trPc = "ret" =>
          /\ trConclusion \in {"detailed", "insufficient"}
          /\ trConclusion = "detailed" <=>
                (trIter \in 1..trMax /\ ToughReached(trConf, trMin))
          /\ trConclusion = "insufficient" <=> trIter = trMax + 1

C19_Step ==
    \* an iteration is computed: it ends the loop exactly when it reaches
    \* minConfidence
    /\ (trPc = "iter" /\ trIter <= trMax) =>
          /\ trIter' = trIter
          /\ IF ToughReached(trConf', trMin)
             THEN trPc' = "ret" /\ trConclusion' = "detailed"
             ELSE trPc' = "pause" /\ trConclusion' = "insufficient"
    \* the next iteration starts only after one that stayed below it
    /\ (trPc = "pause" /\ trPc' # "pause") =>
          /\ ~ToughReached(trConf, trMin)
          /\ trPc' = "iter" /\ trIter' = trIter + 1
    \* nothing is executed after the return
    /\ trPc = "ret" =>
          \/ trPc' = "ret" /\ trIter' = trIter /\ trConf' = trConf
                /\ trConclusion' = trConclusion
          \/ trPc' = "iter" /\ trIter' = 1

\* C19: toughReasoning stops at the first iteration whose confidence is
\* >= minConfidence: the returned iterations is that iteration, nothing is
\* executed after it and the conclusion is the detailed one; the generic
\* conclusion is returned only when no iteration reached minConfidence.
C19_StopsAtFirstReached == []C19_State /\ [][C19_Step]_vars

C19_Witness ==
    /\ trPc = "ret" /\ trConclusion = "detailed"
    /\ trIter >= 2 /\ trIter < trMax
    /\ ToughReached(trConf, trMin)

\* min(1, mean * min(1, n/10) + min(0.2, 0.05 i) + min(0.1, ms/60000)) in
\* ten-thousandths per entry, written out over the log.
ExpectedToughConfidence(es, i, elapsedMs) ==
    LET n == Len(es)
        bonus == (IF i * 50 < 200 THEN i * 50 ELSE 200)
                   + (IF elapsedMs < 6000 THEN elapsedMs \div 60 ELSE 100)
        depth == IF n < 10 THEN n ELSE 10
        value == IF n = 0 THEN 10 * bonus ELSE SumTo(es, n) * depth + 10 * n * bonus
        one == IF n = 0 THEN 10000 ELSE 10000 * n
    IN  [num |-> IF value < one THEN value ELSE one, den |-> one]

\* C20: the confidence toughReasoning returns lies in [0,1] and is
\* min(1, confidenceScore * min(1, totalEntries/10) + min(0.2, i*0.05)
\* + min(0.1, elapsedMs/60000)) for the last executed iteration i.
C20_ConfidenceFormula ==
    /\ [](trPc \in {"pause", "ret"} => (0 <= trConf.num /\ trConf.num <= trConf.den))
    /\ [][ /\ (trPc = "iter" /\ trIter <= trMax) =>
                trConf' = ExpectedToughConfidence(entries, trIter,
                                                  (now - explorationStartTime) * 3000)
           /\ (trPc = "iter" /\ trIter > trMax) => (trPc' = "ret" /\ trConf' = trConf)
           /\ (trPc \in {"pause", "ret"} /\ trPc' # "iter") => trConf' = trConf ]_vars

C20_Witness ==
    /\ trPc = "ret" /\ trIter = trMax + 1 /\ trMax >= 5
    /\ Len(entries) > 10
    /\ (now - explorationStartTime) * 3000 > 6000
    /\ trConf.num < trConf.den
    /\ trConf = ExpectedToughConfidence(entries, trMax, (now - explorationStartTime) * 3000)

\* One entry was added to the log and stored in the cache.
OneEntryAdded ==
    /\ Len(entries') = Len(entries) + 1
    /\ addCalls' = addCalls + 1
    /\ \A i \in 1..Len(entries) : \E j \in 1..Len(entries') : entries'[j] = entries[i]
    /\ \E j \in 1..Len(entries') :
          /\ entries'[j].seq = addCalls'
          /\ cache' = {x \in cache : x.key # KeyOf(entries'[j])}
                          \cup {[key |-> KeyOf(entries'[j]), entry |-> entries'[j]]}

\* A step of one of the operations that only read the store.
ReadingStep ==
    \/ InitializeTask
    \/ ThinkBeforeAction(FrameCall[1], FrameCall[2])
    \/ MakeFinalDecisionCall \/ MakeFinalDecisionStart \/ MakeFinalDecisionFinish
    \/ ToughReasoningCall(1, 850) \/ ToughIterate \/ ToughResume
    \/ InitializeIntelligentThinking
    \/ \E r \in Results : RegisterActionResult(r)
    \/ ExecuteThinkingLoop(MaxRunIterations)
    \/ LoopHead \/ AnalyzeCurrentSituation \/ Dispatch \/ DeepReasoningFinish
    \/ MakeIntelligentDecisionStart \/ MakeIntelligentDecisionFinish

\* C18: only addEntry (directly or through afterResult, one new entry per
\* call) and reset change the log and the cache; beforeAction,
\* finalDecision, toughReasoning, initializeTask, initialize,
\* registerActionResult and every step of run leave log, cache and phase as
\* they are.
C18_OnlyAddAndResetWrite ==
    [][ /\ ReadingStep =>
              (entries' = entries /\ cache' = cache /\ currentPhase' = currentPhase)
        /\ (entries' # entries \/ cache' # cache) =>
              \/ /\ OneEntryAdded
                 /\ currentPhase' = currentPhase
                 /\ UNCHANGED <<trVars, thoughtChain, ctxVars, runVars, fdPc, fdResult, baResult>>
                 /\ \/ thinkingSteps' = thinkingSteps /\ arResult' = arResult
                    \/ /\ Len(thinkingSteps') = Len(thinkingSteps) + 1
                       /\ thinkingSteps'[Len(thinkingSteps')].action = "result_analysis"
              \/ /\ entries' = <<>> /\ cache' = {} /\ addCalls' = 0
                 /\ UNCHANGED <<trVars, thoughtChain, ctxVars, runVars, fdVars, thinkingSteps>> ]_vars

C18_Witness ==
    /\ pcRun = "returned" /\ currentIteration >= 1
    /\ Len(entries) >= 1 /\ cache # {} /\ addCalls = Len(entries)
    /\ \E i \in 1..Len(thoughtChain) : thoughtChain[i].phase = "EXPLORE"
    /\ \E i \in 1..Len(thinkingSteps) : thinkingSteps[i].action = "final_decision"

\* C21: the convergence level of the context lies in [0,1], and so does
\* the value computed for every store confidence in [0,1], every iteration
\* count >= 0 and every log of thought confidences in [0,1].
C21_ConvergenceInRange ==
    /\ convergenceLevel.den > 0
    /\ 0 <= convergenceLevel.num /\ convergenceLevel.num <= convergenceLevel.den
    /\ LET c == ConvergenceOf(GenerateSummary(entries), currentIteration, thoughtChain)
       IN  c.den > 0 /\ 0 <= c.num /\ c.num <= c.den

C21_Witness ==
    /\ convergenceLevel.num = convergenceLevel.den
    /\ convergenceLevel = ConvergenceOf(GenerateSummary(entries), currentIteration, thoughtChain)
    /\ currentIteration > 6
    /\ Len(entries) >= 1
    /\ \E i, j \in 1..Len(thoughtChain) : thoughtChain[i].confidence # thoughtChain[j].confidence

\* The phase-transition rule, written over the log: in EXPLORE at least 5
\* entries with a mean above 0.7, in THINK a mean above 0.85, never in
\* EXECUTE.
TransitionExpected(phase, es) ==
    \/ phase = "EXPLORE" /\ Len(es) >= 5 /\ SumTo(es, Len(es)) * 10 > 7 * 1000 * Len(es)
    \/ phase = "THINK" /\ Len(es) >= 1 /\ SumTo(es, Len(es)) * 100 > 85 * 1000 * Len(es)

\* C22: the phase-transition predicate is true in EXPLORE exactly when
\* totalEntries >= 5 and confidenceScore > 0.7, true in THINK exactly when
\* confidenceScore > 0.85, and false in EXECUTE; it is true for 5 entries
\* of confidence 1.0 in EXPLORE.
C22_TransitionPredicate ==
    /\ \A phase \in Phases :
          ShouldTransitionPhase(phase, GenerateSummary(entries)) <=> TransitionExpected(phase, entries)
    /\ ~ShouldTransitionPhase("EXECUTE", GenerateSummary(entries))
    /\ (Len(entries) = 5 /\ \A i \in 1..5 : entries[i].confidence = 1000) =>
          ShouldTransitionPhase("EXPLORE", GenerateSummary(entries))

C22_Witness ==
    /\ currentPhase = "EXPLORE"
    /\ Len(entries) = 5 /\ \A i \in 1..5 : entries[i].confidence = 1000
    /\ ShouldTransitionPhase(currentPhase, GenerateSummary(entries))
    /\ Len(thinkingSteps) >= 1

\* A step of afterResult: it appends a result_analysis step and leaves its
\* answer in arResult.
IsAfterResult ==
    /\ Len(thinkingSteps') = Len(thinkingSteps) + 1
    /\ thinkingSteps'[Len(thinkingSteps')].action = "result_analysis"

\* C23: the shouldTransition value afterResult returns is the
\* phase-transition predicate for the current phase on the summary of the
\* store that includes the entry just written.
C23_TransitionAfterWrite ==
    [][ IsAfterResult =>
          (arResult'.shouldTransition
             <=> ShouldTransitionPhase(currentPhase', GenerateSummary(entries'))) ]_vars

\* The confidence of a payload by the stated heuristic.
ExpectedResultConfidence(result) ==
    CASE result \in {"error", "not_found", "long_error"} -> 300
      [] result = "long" -> 900
      [] result \in {"hundred", "short"} -> 700
      [] result = "object" -> 800

\* C24: every afterResult call adds exactly one entry (totalEntries grows
\* by 1, hasExplored becomes true for the entry's key) whose confidence is
\* 0.3 for a text containing 'error' or 'not found', otherwise 0.9 for a
\* text longer than 100 characters, 0.7 for another text and 0.8 for a
\* payload that is not a text.
C24_OneEntryWithHeuristic ==
    [][ IsAfterResult =>
          /\ Len(entries') = Len(entries) + 1
          /\ GenerateSummary(entries').totalEntries = GenerateSummary(entries).totalEntries + 1
          /\ \A i \in 1..Len(entries) : \E j \in 1..Len(entries') : entries'[j] = entries[i]
          /\ \E j \in 1..Len(entries') :
                /\ \A i \in 1..Len(entries) : entries[i] # entries'[j]
                /\ entries'[j].toolName = arResult'.toolName
                /\ entries'[j].filePath = arResult'.params.path
                /\ entries'[j].confidence = ExpectedResultConfidence(arResult'.result)
                /\ CacheHas(cache', GenerateCacheKey(entries'[j].toolName, entries'[j].query,
                                                     entries'[j].filePath))
          /\ CacheHas(cache', GenerateCacheKey(arResult'.toolName,
                                               ExtractQueryFromTool(arResult'.toolName,
                                                                    arResult'.params),
                                               arResult'.params.path)) ]_vars

C24_Witness ==
    /\ Len(thinkingSteps) >= 1
    /\ thinkingSteps[Len(thinkingSteps)].action = "result_analysis"
    /\ arResult.result = "long_error"
    /\ Len(entries) >= 5
    /\ \E j \in 1..Len(entries) : entries[j].seq = addCalls /\ entries[j].confidence = 300
    /\ HasExplored("search_files", "other", "x")

\* Relevance (in thousandths) and sufficiency by the stated table, and the
\* combined confidence in ten-thousandths per entry, over the log.
ExpectedRelevance(tool, phase, es) ==
    IF phase = "EXPLORE" /\ tool \in {"search_files", "read_file", "list_files"} THEN 900
    ELSE IF phase = "EXECUTE" /\ tool \in {"replace_in_file", "write_to_file"}
    THEN (IF Len(es) > 0 /\ SumTo(es, Len(es)) * 10 > 7 * 1000 * Len(es) THEN 900 ELSE 500)
    ELSE IF tool = "reasoning" THEN 950
    ELSE 600

ExpectedSufficient(tool, es) ==
    IF tool \in {"search_files", "read_file", "list_files"} THEN TRUE
    ELSE IF tool \in {"replace_in_file", "write_to_file"}
    THEN Len(es) > 5 /\ SumTo(es, Len(es)) * 10 > 8 * 1000 * Len(es)
    ELSE Len(es) > 0

ExpectedActionConfidence(tool, phase, es) ==
    LET n == IF Len(es) = 0 THEN 1 ELSE Len(es)
        twice == ExpectedRelevance(tool, phase, es) * n + SumTo(es, Len(es))
        value == IF ExpectedSufficient(tool, es) THEN 5 * twice ELSE 4 * twice
    IN  [num |-> IF value < 10000 * n THEN value ELSE 10000 * n, den |-> 10000 * n]

\* C25: for an action that is not cached, beforeAction returns confidence
\* min(1, ((relevance + confidenceScore)/2) * f), f = 0.8 when evidence is
\* insufficient and 1 otherwise, with relevance and sufficiency by the
\* stated table, and proceed is true exactly when that confidence > 0.6.
C25_ActionConfidence ==
    [][ (IsBeforeAction
           /\ ~HasExplored(baResult'.toolName,
                           ExtractQueryFromTool(baResult'.toolName, baResult'.params),
                           baResult'.params.path)) =>
          /\ baResult'.confidence
               = ExpectedActionConfidence(baResult'.toolName, currentPhase, entries)
          /\ baResult'.shouldProceed
               <=> (baResult'.confidence.num * 10 > 6 * baResult'.confidence.den) ]_vars

C25_Witness ==
    /\ currentPhase = "EXECUTE"
    /\ Len(thinkingSteps) >= 1
    /\ thinkingSteps[Len(thinkingSteps)].action = "tool_evaluation"
    /\ baResult.toolName = "replace_in_file"
    /\ Len(entries) = 6 /\ \A i \in 1..6 : entries[i].confidence = 800
    /\ baResult.confidence = [num |-> 6 * 4 * (900 + 800), den |-> 6 * 10000]
    /\ baResult.shouldProceed

\* C26: every beforeAction call appends exactly one step to the gate's
\* trace, on the cache-hit path as on the evaluation path, and the step's
\* phase is the store's current phase.
C26_OneStepPerBeforeAction ==
    [][ \A call \in EvalCalls :
          ThinkBeforeAction(call[1], call[2]) =>
            /\ Len(thinkingSteps') = Len(thinkingSteps) + 1
            /\ \A i \in 1..Len(thinkingSteps) : thinkingSteps'[i] = thinkingSteps[i]
            /\ thinkingSteps'[Len(thinkingSteps')].phase = currentPhase
            /\ thinkingSteps'[Len(thinkingSteps')].action
                 = (IF HasExplored(call[1], ExtractQueryFromTool(call[1], call[2]), call[2].path)
                    THEN "cache_check" ELSE "tool_evaluation") ]_vars

C26_Witness ==
    /\ currentPhase = "THINK"
    /\ Len(thinkingSteps) = 2
    /\ thinkingSteps[1].action = "tool_evaluation" /\ thinkingSteps[1].phase = "THINK"
    /\ thinkingSteps[2].action = "cache_check" /\ thinkingSteps[2].phase = "THINK"
    /\ baResult.reasoning = "cached"

\* The eight operations the handler exposes.
ExposedOperations ==
    {"exploration_summary", "tough_reasoning", "check_cache",
     "get_exploration_recommendations", "thinking_history",
     "intelligent_thinking_history", "final_decision", "intelligent_thinking"}

\* execute is entered in this step.
IsExecuteCall == handler.pc \in {"idle", "ret"} /\ handler'.pc # "idle" /\ handler' # handler

\* C27: requesting an operation whose name is not one of the eight exposed
\* operations returns an error response without throwing, and leaves the
\* store (log, cache, phase), the gate's trace and the controller's
\* thought log unchanged; the eight names do not get the error response.
C27_UnknownOperationIsError ==
    [][ IsExecuteCall =>
          IF handler'.functionName \in ExposedOperations
          THEN handler'.response # "error"
          ELSE /\ handler'.pc = "ret"
               /\ handler'.response = "error"
               /\ UNCHANGED <<entries, cache, currentPhase, thinkingSteps, thoughtChain>> ]_vars

C27_Witness ==
    /\ handler.pc = "ret"
    /\ handler.response = "error"
    /\ handler.functionName = "EXPLORATION_SUMMARY"
    /\ Len(entries) = 5
    /\ thinkingSteps # <<>>
    /\ thoughtChain # <<>>

\* C28: each exposed operation is idempotent on the store: invoked a
\* second time in succession with the same arguments, it leaves the
\* store's log, cache and phase as the first invocation left them.
C28_IdempotentOnStore ==
    [][ handler'.repeated => UNCHANGED <<entries, cache, currentPhase>> ]_vars

C30_TransitionReachesExecute ==
    [][ (handler.pc = "tough_wait" /\ handler'.response = "tough_transition") =>
          currentPhase' = "EXECUTE" ]_vars

\* C31: after the final_decision operation completes, the store's phase
\* is EXECUTE, from any starting phase.
C31_FinalDecisionReachesExecute ==
    [][ (handler.pc = "decision_wait" /\ handler'.pc = "ret"
           /\ handler'.response = "decision") => currentPhase' = "EXECUTE" ]_vars

\* The mean confidence of the log is below / at least t thousandths.
MeanBelow(es, t) == IF Len(es) = 0 THEN 0 < t ELSE SumTo(es, Len(es)) < t * Len(es)

\* The branch the stated order picks.
ExpectedClassification(es, phase, iteration) ==
    IF Len(es) < 3 /\ phase = "EXPLORE" THEN "broad"
    ELSE IF MeanBelow(es, 700) /\ phase = "THINK" THEN "deep"
    ELSE IF ~MeanBelow(es, 800) \/ iteration >= 5 THEN "decide"
    ELSE "targeted"

\* analyzeCurrentSituation runs in this step.
IsClassification == pcRun = "analyze" /\ pcRun' = "dispatch"

\* C32: in each iteration Classify picks the first matching branch in the
\* order (i) fewer than 3 entries in EXPLORE: broad exploration, (ii)
\* confidenceScore < 0.7 in THINK: deep reasoning, (iii) confidenceScore
\* >= 0.8 or iteration >= 5: decision, (iv) otherwise targeted
\* exploration; and it appends exactly one THINK thought before the branch
\* acts.
C32_ClassifyBranchOrder ==
    [][ (pcRun = "analyze" /\ pcRun' # pcRun) =>
          LET branch == ExpectedClassification(entries, currentPhase, currentIteration)
          IN  /\ IsClassification
              /\ Len(thoughtChain') = Len(thoughtChain) + 1
              /\ \A i \in 1..Len(thoughtChain) : thoughtChain'[i] = thoughtChain[i]
              /\ thoughtChain'[Len(thoughtChain')].phase = "THINK"
              /\ thoughtChain'[Len(thoughtChain')].kind = "classify_" \o branch
              /\ analysis'.needsMoreExploration <=> branch \in {"broad", "targeted"}
              /\ analysis'.needsDeepReasoning <=> branch = "deep"
              /\ analysis'.canMakeDecision <=> branch = "decide"
              /\ branch = "broad" => Len(analysis'.explorationStrategy) = 3
              /\ branch = "targeted" => Len(analysis'.explorationStrategy) = 2 ]_vars

C32_Witness ==
    /\ pcRun = "dispatch"
    /\ currentIteration = 5
    /\ currentPhase = "THINK"
    /\ analysis.needsDeepReasoning
    /\ thoughtChain[Len(thoughtChain)].kind = "classify_deep"

\* Exactly one of the three flags of an analysis is set.
ExactlyOneFlag(a) ==
    /\ a.needsMoreExploration \/ a.needsDeepReasoning \/ a.canMakeDecision
    /\ ~(a.needsMoreExploration /\ a.needsDeepReasoning)
    /\ ~(a.needsMoreExploration /\ a.canMakeDecision)
    /\ ~(a.needsDeepReasoning /\ a.canMakeDecision)

C33_State ==
    /\ pcRun = "dispatch" => ExactlyOneFlag(analysis)
    /\ convergenceLevel = Frac(0, 1000)
    /\ decideSite # "convergence"

C33_Step ==
    /\ lastActionResult # NoResult => lastActionResult' = lastActionResult
    /\ convergenceLevel' = convergenceLevel
    /\ pcRun = "dispatch" =>
          \/ pcRun' = "loop"
          \/ pcRun' = "deep_wait"
          \/ pcRun' = "decide" /\ decideSite' = "loop"

Stuck(es, phase) ==
    \/ Len(es) < 3 /\ phase = "EXPLORE"
    \/ MeanBelow(es, 700) /\ phase = "THINK"

\* The run that returned executed at least one iteration.
ReturnedAfterIterating == pcRun = "returned" /\ currentIteration > startIteration

\* C34 as stated: on a store that is not modified during run, if branch
\* (i) or (ii) matches it matches in every iteration and the decision is
\* the forced one after all maxIterations iterations; in every other store
\* state can-decide is taken no later than iteration 5.
C34_Original ==
    ReturnedAfterIterating =>
        IF Stuck(entries, currentPhase)
        THEN decideSite = "forced" /\ currentIteration = totalIterations
        ELSE decideSite = "loop" /\ currentIteration <= 5

C34_State ==
    /\ (InRun /\ ~Stuck(entries, currentPhase)) => currentIteration <= 5
    /\ (InRun /\ Stuck(entries, currentPhase)) => decideSite # "loop"
    /\ ReturnedAfterIterating =>
          IF Stuck(entries, currentPhase)
          THEN decideSite = "forced" /\ currentIteration = totalIterations
          ELSE IF totalIterations >= 5
          THEN decideSite = "loop" /\ currentIteration <= 5
          ELSE \/ decideSite = "loop"
               \/ decideSite = "forced" /\ currentIteration = totalIterations

C34_Step ==
    IsClassification =>
        IF Stuck(entries, currentPhase)
        THEN /\ ~analysis'.canMakeDecision
             /\ analysis'.needsDeepReasoning <=> currentPhase = "THINK"
        ELSE currentIteration >= 5 => analysis'.canMakeDecision

\* C34, for runs of an initialized controller: a store matching branch (i)
\* or (ii) matches it in every iteration, never decides in the loop and
\* gets the forced decision after all maxIterations iterations; any other
\* store decides in the loop no later than iteration 5 when maxIterations
\* >= 5, and otherwise decides in the loop or gets the forced decision
\* after maxIterations iterations.
C34_StuckOrDecidedByFive == []C34_State /\ [][C34_Step]_vars

C34_Witness ==
    /\ pcRun = "returned"
    /\ ~Stuck(entries, currentPhase)
    /\ decideSite = "loop"
    /\ currentIteration = 5
    /\ startIteration = 0

\* C35: on a store with zero entries beforeAction returns proceed = false
\* for every action kind in every phase, with a confidence of at most
\* 0.475, and writes no entry.
C35_EmptyStoreRefusesAll ==
    [][ (IsBeforeAction /\ Len(entries) = 0) =>
          /\ ~baResult'.shouldProceed
          /\ baResult'.confidence.num * 1000 <= 475 * baResult'.confidence.den
          /\ UNCHANGED <<entries, cache>> ]_vars

C35_Witness ==
    /\ Len(entries) = 0
    /\ currentPhase = "EXPLORE"
    /\ baResult.toolName = "search_files"
    /\ baResult.reasoning = "evaluated"
    /\ baResult.confidence = Frac(4500, 10000)
    /\ ~baResult.shouldProceed

\* C36: beforeAction returns proceed = true for a mutating action
\* (replace_in_file, write_to_file) only when the store's phase is EXECUTE;
\* in EXPLORE and THINK every mutating action is refused, whatever the
\* store's summary.
C36_MutatingOnlyInExecute ==
    [][ (IsBeforeAction /\ baResult'.toolName \in ModificationTools
            /\ baResult'.shouldProceed) => currentPhase = "EXECUTE" ]_vars

\* Triples hasExplored is asked about.
CacheProbes ==
    {"search_files", "SEARCH_FILES"} \X {"auth", "Auth", "auth:x"} \X {NoPath, "", "x", "X"}

\* The entry was stored under the triple, up to the case of its letters.
SameUpToCase(e, tool, query, filePath) ==
    /\ e.toolName \in CaseVariants(tool)
    /\ e.query \in CaseVariants(query)
    /\ e.filePath \in CaseVariants(filePath)

\* C37: hasExplored(a, q, p) is true only if an entry was added since the
\* last reset whose (actionKind, query, filePath) equals (a, q, p) up to
\* letter case, also for queries or paths containing ':' and for an empty
\* path against an absent one.
C37_KeyIdentifiesTriple ==
    \A probe \in CacheProbes :
        HasExplored(probe[1], probe[2], probe[3]) =>
            \E i \in 1..Len(entries) : SameUpToCase(entries[i], probe[1], probe[2], probe[3])

\* The step is a call of initializeIntelligentThinking.
IsInitialize ==
    /\ currentIteration' = 0
    /\ Len(thoughtChain') = Len(thoughtChain) + 2
    /\ thoughtChain'[Len(thoughtChain) + 1].kind = "task"
    /\ pcRun' = "idle"

C38_State ==
    \* never initialized, or a run has returned since: the flag is down
    /\ thoughtChain = <<>> => ~isThinkingActive
    /\ pcRun = "returned" => ~isThinkingActive
    \* a run that has left the loop head without an iteration is at its
    \* forced decision, and has returned it if it has returned
    /\ (pcRun \notin {"idle", "loop"} /\ currentIteration = startIteration) =>
          /\ pcRun \in {"decide", "decide_wait", "returned", "thrown"}
          /\ decideSite = "forced"

C38_Step ==
    \* the flag is raised by initialize only
    /\ (isThinkingActive' /\ ~isThinkingActive) => IsInitialize
    \* an iteration starts only while the flag is up
    /\ currentIteration' = currentIteration + 1 => isThinkingActive /\ pcRun = "loop"
    \* with the flag down the loop head goes to the forced decision
    /\ (pcRun = "loop" /\ ~isThinkingActive) =>
          \/ UNCHANGED vars
          \/ /\ pcRun' = "decide" /\ decideSite' = "forced"
             /\ UNCHANGED <<currentIteration, thoughtChain>>
    \* a classification thought belongs to an iteration of this run
    /\ (InRun /\ Len(thoughtChain') > Len(thoughtChain)
            /\ thoughtChain'[Len(thoughtChain')].phase = "THINK") =>
          currentIteration > startIteration
    \* a run returns with the flag down
    /\ (pcRun' = "returned" /\ pcRun # "returned") => ~isThinkingActive'

\* C38: executeThinkingLoop executes iterations only if
\* initializeIntelligentThinking was called after construction and after
\* the previous run returned or stopThinking was called; a run on a
\* never-initialized controller, or a second run after a run that returned
\* without initializing again, executes zero iterations, logs no
\* classification thought and returns the forced decision.
C38_IterationsNeedInitialize == []C38_State /\ [][C38_Step]_vars

C38_Witness ==
    /\ pcRun = "returned"
    /\ decideSite = "forced"
    /\ currentIteration = startIteration
    /\ currentIteration < totalIterations
    /\ currentIteration > 0
    /\ \A i \in 1..Len(thoughtChain) : thoughtChain[i].kind \notin {"error"}

\* C39: within one run, once an EXECUTE thought has been appended to the
\* thought log no EXPLORE, THINK or REFLECT thought is appended afterwards,
\* and the last thought of every completed run is an EXECUTE thought, also
\* when a collaborator throws during the decision step.
C39_ExecuteThoughtsAreLast ==
    [][ /\ (InRun /\ Len(thoughtChain') = Len(thoughtChain) + 1
               /\ thoughtChain'[Len(thoughtChain')].phase \in {"EXPLORE", "THINK", "REFLECT"}) =>
              decisionCalls = 0
        /\ (pcRun' = "returned" /\ pcRun # "returned") =>
              thoughtChain'[Len(thoughtChain')].phase = "EXECUTE" ]_vars

\* C40: when makeFinalDecision returns after its forced toughReasoning
\* pass, during whose pauses the caller may have added entries, the entry
\* count and the confidence quoted in the returned rationale equal the
\* entry count and the confidenceScore from which the decision and the
\* returned confidence were computed.
C40_RationaleMatchesDecision ==
    [][ (fdPc = "tough_wait" /\ fdPc' = "ret") =>
          /\ fdResult'.reasoning.totalEntries = GenerateSummary(entries).totalEntries
          /\ FracEq(fdResult'.reasoning.confidenceScore, fdResult'.confidence) ]_vars

====
